---- MODULE Spec2Model ----
(***************************************************************************)
(* opencode-scheduler: cron compiler, job record model, invocation builder *)
(* scheduler adapters (launchd / systemd) and the manual-run supervisor of *)
(* src/src/index.ts.                                                       *)
(*                                                                         *)
(* Strings are sequences of one-character strings, so that trimming,       *)
(* splitting, parseInt and zero-padding are computed, not assumed.         *)
(* `undefined` is the value UNDEF; an optional number is <<>> or <<n>>.    *)
(***************************************************************************)
EXTENDS Integers, Sequences, FiniteSets, TLC

VARIABLES
    cronExpr,      \* cron compiler: the expression under compilation
    launchdOut,    \* cron compiler: result of cronToLaunchdCalendars
    systemdOut,    \* cron compiler: result of cronToSystemdCalendars
    validateOut,   \* cron compiler: result of validateCronExpression
    argJob,        \* invocation builder: the job handed to buildOpencodeArgs
    argsOut,       \* invocation builder: result of buildOpencodeArgs
    slugName,      \* slug derivation: the name given to schedule_job
    slugSource,    \* slug derivation: the source given to schedule_job
    slugOut,       \* slug derivation: the slug schedule_job derives
    adPlat,        \* adapter calls: the platform whose adapter is called
    adUnit,        \* adapter calls: the native unit of the job
    adJob,         \* adapter calls: the job being installed
    adOut,         \* adapter calls: the last call and the steps it attempted
    normRaw,       \* record decoding: the value JSON.parse returned
    normOut,       \* record decoding: what normalizeJob made of it
    platform,      \* os.platform(), fixed at start (IS_MAC / IS_LINUX)
    store,         \* JOBS_DIR: slug -> <<>> or <<persisted record>>
    units,         \* installed native units: slug -> unit state
    children,      \* manually spawned child processes still to close
    spawned,       \* number of children spawned so far
    logs,          \* LOGS_DIR: slug -> the sections written to the job's log
    now,           \* the clock read by new Date()
    last           \* the last tool call or child callback and what it did

cronVars == <<cronExpr, launchdOut, systemdOut, validateOut>>
argVars == <<argJob, argsOut>>
slugVars == <<slugName, slugSource, slugOut>>
adapterVars == <<adPlat, adUnit, adJob, adOut>>
normVars == <<normRaw, normOut>>
sysVars == <<platform, store, units, children, spawned, logs, now, last>>
vars == <<cronVars, argVars, slugVars, adapterVars, normVars, sysVars>>

----------------------------------------------------------------------------
(* Characters and strings *)

UNDEF == <<"undefined">>

Digits == <<"0", "1", "2", "3", "4", "5", "6", "7", "8", "9">>

IsDigit(c) == \E i \in 1..10 : Digits[i] = c

DigitVal(c) == (CHOOSE i \in 1..10 : Digits[i] = c) - 1

IsSpace(c) == c = " "

RECURSIVE Concat(_)
Concat(ss) == IF ss = <<>> THEN <<>> ELSE Head(ss) \o Concat(Tail(ss))

RECURSIVE TrimStart(_)
TrimStart(s) ==
    IF s # <<>> /\ IsSpace(Head(s)) THEN TrimStart(Tail(s)) ELSE s

RECURSIVE TrimEnd(_)
TrimEnd(s) ==
    IF s # <<>> /\ IsSpace(s[Len(s)]) THEN TrimEnd(SubSeq(s, 1, Len(s) - 1)) ELSE s

\* String.prototype.trim
Trim(s) == TrimEnd(TrimStart(s))

\* String.prototype.split(sep) for a one-character separator
RECURSIVE SplitChar(_, _, _)
SplitChar(s, sep, cur) ==
    IF s = <<>> THEN <<cur>>
    ELSE IF Head(s) = sep THEN <<cur>> \o SplitChar(Tail(s), sep, <<>>)
    ELSE SplitChar(Tail(s), sep, Append(cur, Head(s)))

\* String.prototype.split(/\s+/)
RECURSIVE SplitSpaces(_, _)
SplitSpaces(s, cur) ==
    IF s = <<>> THEN <<cur>>
    ELSE IF IsSpace(Head(s)) THEN <<cur>> \o SplitSpaces(TrimStart(s), <<>>)
    ELSE SplitSpaces(Tail(s), Append(cur, Head(s)))

StartsWith(s, p) == Len(s) >= Len(p) /\ SubSeq(s, 1, Len(p)) = p

\* the leading run of decimal digits of s, as a number; acc is the value so far
RECURSIVE DigitsPrefix(_, _)
DigitsPrefix(s, acc) ==
    IF s # <<>> /\ IsDigit(Head(s))
    THEN DigitsPrefix(Tail(s), 10 * acc + DigitVal(Head(s)))
    ELSE acc

\* parseInt(s, 10): leading whitespace skipped, optional sign, then the
\* longest digit prefix; NaN (<<>>) when there is no digit
ParseInt(str) ==
    LET s == TrimStart(str)
        neg == s # <<>> /\ Head(s) = "-"
        body == IF s # <<>> /\ Head(s) \in {"-", "+"} THEN Tail(s) ELSE s
    IN IF body = <<>> \/ ~IsDigit(Head(body)) THEN <<>>
       ELSE <<(IF neg THEN -1 ELSE 1) * DigitsPrefix(body, 0)>>

\* /^\d+$/.test(s)
AllDigits(s) == s # <<>> /\ \A i \in 1..Len(s) : IsDigit(s[i])

RECURSIVE ToDecimal(_)
ToDecimal(n) ==
    IF n < 10 THEN <<Digits[n + 1]>> ELSE Append(ToDecimal(n \div 10), Digits[(n % 10) + 1])

\* Number.prototype.toString for an integer
NumToString(n) == IF n < 0 THEN <<"-">> \o ToDecimal(-n) ELSE ToDecimal(n)

RECURSIVE PadStart(_, _, _)
PadStart(s, size, c) == IF Len(s) >= size THEN s ELSE PadStart(<<c>> \o s, size, c)

----------------------------------------------------------------------------
(* Cron compiler *)

Throw == [kind |-> "throw", values |-> <<>>]
Wildcard == [kind |-> "null", values |-> <<>>]
Values(vs) == [kind |-> "values", values |-> vs]

splitCronExpression(cron) ==
    LET parts == SplitSpaces(Trim(cron), <<>>)
    IN IF Len(parts) # 5 THEN [threw |-> TRUE, parts |-> <<>>]
       ELSE [threw |-> FALSE, parts |-> parts]

RECURSIVE SortedSeq(_)
SortedSeq(S) ==
    IF S = {} THEN <<>>
    ELSE LET m == CHOOSE x \in S : \A y \in S : x <= y
         IN <<m>> \o SortedSeq(S \ {m})

\* the values as they were given: no sort, no removal of duplicates
unsortedValues(values) == values

uniqueSorted(values) == SortedSeq({values[i] : i \in 1..Len(values)})

\* [ok, n]: the number or a throw
parseCronNumber(value, min, max, allowSundaySeven) ==
    LET parsed == ParseInt(value)
    IN IF parsed = <<>> THEN [ok |-> FALSE, n |-> 0]
       ELSE LET normalized == IF allowSundaySeven /\ parsed[1] = 7 THEN 0 ELSE parsed[1]
            IN IF normalized < min \/ normalized > max THEN [ok |-> FALSE, n |-> 0]
               ELSE [ok |-> TRUE, n |-> normalized]

RECURSIVE StepValues(_, _, _)
StepValues(value, max, step) ==
    IF value <= max THEN <<value>> \o StepValues(value + step, max, step) ELSE <<>>

parseCronField(field, min, max, allowSundaySeven) ==
    IF field = <<"*">> THEN Wildcard
    ELSE IF StartsWith(field, <<"*", "/">>) THEN
        LET step == ParseInt(SubSeq(field, 3, Len(field)))
        IN IF step = <<>> \/ step[1] <= 0 THEN Throw
           ELSE Values(StepValues(min, max, step[1]))
    ELSE LET parts == SplitChar(field, ",", <<>>)
         IN IF Len(parts) > 1 THEN
                LET nums == [i \in 1..Len(parts) |->
                               parseCronNumber(parts[i], min, max, allowSundaySeven)]
                IN IF \E i \in 1..Len(nums) : ~nums[i].ok THEN Throw
                   ELSE Values(uniqueSorted([i \in 1..Len(nums) |-> nums[i].n]))
            ELSE IF AllDigits(field) THEN
                LET num == parseCronNumber(field, min, max, allowSundaySeven)
                IN IF num.ok THEN Values(<<num.n>>) ELSE Throw
            ELSE Throw

\* the five parseCronField calls shared by the validator and both compilers
ParseFields(parts) ==
    [minute  |-> parseCronField(parts[1], 0, 59, FALSE),
     hour    |-> parseCronField(parts[2], 0, 23, FALSE),
     day     |-> parseCronField(parts[3], 1, 31, FALSE),
     month   |-> parseCronField(parts[4], 1, 12, FALSE),
     weekday |-> parseCronField(parts[5], 0, 7, TRUE)]

FieldNames == {"minute", "hour", "day", "month", "weekday"}

AnyThrow(p) == \E f \in FieldNames : p[f].kind = "throw"

\* TRUE when the expression is accepted
validateCronExpression(cron) ==
    LET sp == splitCronExpression(cron)
    IN ~sp.threw /\ ~AnyThrow(ParseFields(sp.parts))

expandLaunchdEntries(entries, key, fieldValues) ==
    IF fieldValues.kind = "null" THEN entries
    ELSE Concat([i \in 1..Len(entries) |->
                   [j \in 1..Len(fieldValues.values) |->
                      (key :> fieldValues.values[j]) @@ entries[i]]])

buildLaunchdCalendars(minuteValues, hourValues, dayValues, monthValues, weekdayValues) ==
    expandLaunchdEntries(
      expandLaunchdEntries(
        expandLaunchdEntries(
          expandLaunchdEntries(
            expandLaunchdEntries(<<<<>>>>, "Minute", minuteValues),
            "Hour", hourValues),
          "Day", dayValues),
        "Month", monthValues),
      "Weekday", weekdayValues)

cronToLaunchdCalendars(cron) ==
    LET sp == splitCronExpression(cron)
    IN IF sp.threw THEN [threw |-> TRUE, out |-> <<>>]
       ELSE LET p == ParseFields(sp.parts)
            IN IF AnyThrow(p) THEN [threw |-> TRUE, out |-> <<>>]
               ELSE IF p.day.kind = "values" /\ p.weekday.kind = "values" THEN
                   [threw |-> FALSE,
                    out |-> buildLaunchdCalendars(p.minute, p.hour, p.day, p.month, Wildcard)
                            \o buildLaunchdCalendars(p.minute, p.hour, Wildcard, p.month, p.weekday)]
               ELSE [threw |-> FALSE,
                     out |-> buildLaunchdCalendars(p.minute, p.hour, p.day, p.month, p.weekday)]

SYSTEMD_WEEKDAYS ==
    << <<"S", "u", "n">>, <<"M", "o", "n">>, <<"T", "u", "e">>, <<"W", "e", "d">>,
       <<"T", "h", "u">>, <<"F", "r", "i">>, <<"S", "a", "t">> >>

formatSystemdValue(value, size) == PadStart(NumToString(value), size, "0")

Star == <<"*">>

\* SYSTEMD_WEEKDAYS[value] ?? "*"
WeekdayName(value) ==
    IF value + 1 \in DOMAIN SYSTEMD_WEEKDAYS THEN SYSTEMD_WEEKDAYS[value + 1] ELSE Star

FormatField(fieldValues) ==
    IF fieldValues.kind = "values"
    THEN [i \in 1..Len(fieldValues.values) |-> formatSystemdValue(fieldValues.values[i], 2)]
    ELSE <<Star>>

CalendarLine(dowValue, monthValue, domValue, hourValue, minuteValue) ==
    dowValue \o <<" ", "*", "-">> \o monthValue \o <<"-">> \o domValue \o <<" ">>
        \o hourValue \o <<":">> \o minuteValue \o <<":", "0", "0">>

\* the closure buildCalendars of cronToSystemdCalendars
buildCalendars(minutes, hours, domValues, months, dowValues) ==
    Concat([a \in 1..Len(minutes) |->
      Concat([b \in 1..Len(hours) |->
        Concat([c \in 1..Len(domValues) |->
          Concat([d \in 1..Len(months) |->
            [e \in 1..Len(dowValues) |->
               CalendarLine(dowValues[e], months[d], domValues[c], hours[b], minutes[a])]])])])])

\* the weekday names of the day-of-week field
FormatWeekdays(fieldValues) ==
    IF fieldValues.kind = "values"
    THEN [i \in 1..Len(fieldValues.values) |-> WeekdayName(fieldValues.values[i])]
    ELSE <<Star>>

\* the lines cronToSystemdCalendars returns for parsed fields p
SystemdLines(p) ==
    IF p.day.kind = "values" /\ p.weekday.kind = "values" THEN
        buildCalendars(FormatField(p.minute), FormatField(p.hour), FormatField(p.day),
                       FormatField(p.month), <<Star>>)
        \o buildCalendars(FormatField(p.minute), FormatField(p.hour), <<Star>>,
                          FormatField(p.month), FormatWeekdays(p.weekday))
    ELSE buildCalendars(FormatField(p.minute), FormatField(p.hour), FormatField(p.day),
                        FormatField(p.month), FormatWeekdays(p.weekday))

cronToSystemdCalendars(cron) ==
    LET sp == splitCronExpression(cron)
    IN IF sp.threw THEN [threw |-> TRUE, out |-> <<>>]
       ELSE LET p == ParseFields(sp.parts)
            IN IF AnyThrow(p) THEN [threw |-> TRUE, out |-> <<>>]
               ELSE [threw |-> FALSE, out |-> SystemdLines(p)]

----------------------------------------------------------------------------
(* Job record model: run specs *)

Lower == <<"a", "b", "c", "d", "e", "f", "g", "h", "i", "j", "k", "l", "m",
           "n", "o", "p", "q", "r", "s", "t", "u", "v", "w", "x", "y", "z">>
Upper == <<"A", "B", "C", "D", "E", "F", "G", "H", "I", "J", "K", "L", "M",
           "N", "O", "P", "Q", "R", "S", "T", "U", "V", "W", "X", "Y", "Z">>

IsLower(c) == \E i \in 1..26 : Lower[i] = c
IsUpper(c) == \E i \in 1..26 : Upper[i] = c
IsAlpha(c) == IsLower(c) \/ IsUpper(c)

\* new URL(s) succeeds: s is an absolute URL, that is a scheme (a letter, then
\* letters, digits, "+", "-", "."), a colon and a non-empty rest
IsValidUrl(s) ==
    \E i \in 2..(Len(s) - 1) :
        /\ s[i] = ":"
        /\ IsAlpha(s[1])
        /\ \A j \in 2..(i - 1) : IsAlpha(s[j]) \/ IsDigit(s[j]) \/ s[j] \in {"+", "-", "."}

\* [threw, url]
normalizeAttachUrl(attachUrl) ==
    IF attachUrl = UNDEF THEN [threw |-> FALSE, url |-> UNDEF]
    ELSE LET trimmed == Trim(attachUrl)
         IN IF trimmed = <<>> THEN [threw |-> FALSE, url |-> UNDEF]
            ELSE IF ~IsValidUrl(trimmed) THEN [threw |-> TRUE, url |-> UNDEF]
            ELSE [threw |-> FALSE, url |-> trimmed]

StrJson == <<"j", "s", "o", "n">>
StrDefault == <<"d", "e", "f", "a", "u", "l", "t">>

normalizeRunFormat(value) ==
    IF value = UNDEF THEN UNDEF
    ELSE IF Trim(value) = StrJson THEN StrJson
    ELSE IF Trim(value) = StrDefault THEN StrDefault
    ELSE UNDEF

\* [threw, value]
parseRunFormatInput(value) ==
    IF value = UNDEF THEN [threw |-> FALSE, value |-> UNDEF]
    ELSE IF Trim(value) = <<>> THEN [threw |-> FALSE, value |-> UNDEF]
    ELSE IF normalizeRunFormat(value) # UNDEF
         THEN [threw |-> FALSE, value |-> normalizeRunFormat(value)]
    ELSE [threw |-> TRUE, value |-> UNDEF]

\* a run spec with every field unset ({} in the source); a port is kept in
\* half units so that Math.floor has something to do: <<17>> is 8.5
EmptyRun ==
    [prompt |-> UNDEF, command |-> UNDEF, arguments |-> UNDEF, files |-> <<>>,
     agent |-> UNDEF, model |-> UNDEF, variant |-> UNDEF, title |-> UNDEF,
     share |-> <<>>, continue |-> <<>>, session |-> UNDEF, runFormat |-> UNDEF,
     attachUrl |-> UNDEF, port |-> <<>>]

\* trimmed ? trimmed : undefined, for a string or undefined
TrimToUndef(v) == IF v = UNDEF \/ Trim(v) = <<>> THEN UNDEF ELSE Trim(v)

SelectNonEmpty(ss) == SelectSeq(ss, LAMBDA x : x # <<>>)

normalizeRunSpec(run) ==
    [prompt    |-> TrimToUndef(run.prompt),
     command   |-> TrimToUndef(run.command),
     arguments |-> TrimToUndef(run.arguments),
     files     |-> SelectNonEmpty([i \in 1..Len(run.files) |-> Trim(run.files[i])]),
     agent     |-> TrimToUndef(run.agent),
     model     |-> TrimToUndef(run.model),
     variant   |-> TrimToUndef(run.variant),
     title     |-> TrimToUndef(run.title),
     share     |-> IF run.share = <<TRUE>> THEN <<TRUE>> ELSE <<>>,
     continue  |-> IF run.continue = <<TRUE>> THEN <<TRUE>> ELSE <<>>,
     session   |-> TrimToUndef(run.session),
     runFormat |-> IF run.runFormat = StrJson THEN StrJson
                   ELSE IF run.runFormat = StrDefault THEN StrDefault ELSE UNDEF,
     attachUrl |-> TrimToUndef(run.attachUrl),
     port      |-> IF run.port = <<>> THEN <<>>
                   ELSE LET floored == 2 * (run.port[1] \div 2)
                        IN IF floored <= 0 THEN <<>> ELSE <<floored>>]

HasText(v) == v # UNDEF /\ Trim(v) # <<>>

\* TRUE when validateRunSpec returns without throwing
validateRunSpec(run) ==
    /\ HasText(run.prompt) \/ HasText(run.command)
    /\ ~(HasText(run.prompt) /\ HasText(run.command))
    /\ run.attachUrl # UNDEF => ~normalizeAttachUrl(run.attachUrl).threw
    /\ run.port # <<>> => run.port[1] > 0
    /\ run.runFormat \in {UNDEF, StrDefault, StrJson}

\* getJobRun looking at the legacy prompt before the run spec
getJobRunLegacyFirst(job) ==
    LET fallbackPrompt == IF job.prompt = UNDEF THEN <<>> ELSE Trim(job.prompt)
    IN IF fallbackPrompt # <<>>
       THEN [threw |-> FALSE,
             run |-> [EmptyRun EXCEPT !.prompt = fallbackPrompt, !.attachUrl = job.attachUrl]]
       ELSE IF job.run # <<>> THEN [threw |-> FALSE, run |-> job.run[1]]
       ELSE [threw |-> TRUE, run |-> EmptyRun]

\* [threw, run]; job.run is <<>> (absent) or <<run>>
getJobRun(job) ==
    IF job.run # <<>> THEN [threw |-> FALSE, run |-> job.run[1]]
    ELSE LET fallbackPrompt == IF job.prompt = UNDEF THEN <<>> ELSE Trim(job.prompt)
         IN IF fallbackPrompt = <<>> THEN [threw |-> TRUE, run |-> EmptyRun]
            ELSE [threw |-> FALSE,
                  run |-> [EmptyRun EXCEPT !.prompt = fallbackPrompt, !.attachUrl = job.attachUrl]]

----------------------------------------------------------------------------
(* Invocation builder *)

TokRun == <<"r", "u", "n">>
FlagAttach == <<"-", "-", "a", "t", "t", "a", "c", "h">>
FlagPort == <<"-", "-", "p", "o", "r", "t">>
FlagCommand == <<"-", "-", "c", "o", "m", "m", "a", "n", "d">>
FlagAgent == <<"-", "-", "a", "g", "e", "n", "t">>
FlagModel == <<"-", "-", "m", "o", "d", "e", "l">>
FlagVariant == <<"-", "-", "v", "a", "r", "i", "a", "n", "t">>
FlagFormat == <<"-", "-", "f", "o", "r", "m", "a", "t">>
FlagShare == <<"-", "-", "s", "h", "a", "r", "e">>
FlagTitle == <<"-", "-", "t", "i", "t", "l", "e">>
FlagContinue == <<"-", "-", "c", "o", "n", "t", "i", "n", "u", "e">>
FlagSession == <<"-", "-", "s", "e", "s", "s", "i", "o", "n">>
FlagFile == <<"-", "-", "f", "i", "l", "e">>
Terminator == <<"-", "-">>

\* args.push(flag, value) when the value is set
Opt(flag, value) == IF value # UNDEF /\ value # <<>> THEN <<flag, value>> ELSE <<>>

\* args.push(flag) when the boolean is true
Bare(flag, value) == IF value = <<TRUE>> THEN <<flag>> ELSE <<>>

PortArg(port) == IF port # <<>> THEN <<FlagPort, NumToString(port[1] \div 2)>> ELSE <<>>

FileArgs(files) == Concat([i \in 1..Len(files) |-> <<FlagFile, files[i]>>])

\* the switches in the order of section 4.3: the bare flags after --session
SwitchArgsBareLast(run) ==
    Opt(FlagAttach, run.attachUrl) \o PortArg(run.port) \o Opt(FlagCommand, run.command)
    \o Opt(FlagAgent, run.agent) \o Opt(FlagModel, run.model) \o Opt(FlagVariant, run.variant)
    \o Opt(FlagFormat, run.runFormat) \o Opt(FlagTitle, run.title)
    \o Opt(FlagSession, run.session) \o Bare(FlagShare, run.share)
    \o Bare(FlagContinue, run.continue)

\* the switches of one normalized run spec, in the order of the pushes
SwitchArgs(run) ==
    Opt(FlagAttach, run.attachUrl) \o PortArg(run.port) \o Opt(FlagCommand, run.command)
    \o Opt(FlagAgent, run.agent) \o Opt(FlagModel, run.model) \o Opt(FlagVariant, run.variant)
    \o Opt(FlagFormat, run.runFormat) \o Bare(FlagShare, run.share) \o Opt(FlagTitle, run.title)
    \o Bare(FlagContinue, run.continue) \o Opt(FlagSession, run.session)

\* a positional argument that is the prompt whatever the mode
PositionalPrompt(run) == IF run.prompt = UNDEF THEN <<>> ELSE run.prompt

\* run.command ? run.arguments ?? "" : run.prompt ?? ""
Positional(run) ==
    IF run.command # UNDEF
    THEN (IF run.arguments = UNDEF THEN <<>> ELSE run.arguments)
    ELSE (IF run.prompt = UNDEF THEN <<>> ELSE run.prompt)

\* [threw, args]; the resolved executable path is not part of the vector
buildOpencodeArgs(job) ==
    LET got == getJobRun(job)
        run == normalizeRunSpec(got.run)
    IN IF got.threw \/ ~validateRunSpec(run) THEN [threw |-> TRUE, args |-> <<>>]
       ELSE [threw |-> FALSE,
             args |-> <<TokRun>> \o SwitchArgs(run) \o FileArgs(run.files)
                      \o <<Terminator, Positional(run)>>]

----------------------------------------------------------------------------
(* Job records and the record store *)

ToLower(c) == IF IsUpper(c) THEN Lower[CHOOSE i \in 1..26 : Upper[i] = c] ELSE c

IsSlugChar(c) == IsLower(c) \/ IsDigit(c)

\* .replace(/[^a-z0-9]+/g, "-"): every run of other characters becomes one hyphen
RECURSIVE CollapseRuns(_, _)
CollapseRuns(s, inRun) ==
    IF s = <<>> THEN <<>>
    ELSE IF IsSlugChar(Head(s)) THEN <<Head(s)>> \o CollapseRuns(Tail(s), FALSE)
    ELSE IF inRun THEN CollapseRuns(Tail(s), TRUE)
    ELSE <<"-">> \o CollapseRuns(Tail(s), TRUE)

\* .replace(/^-|-$/g, ""): one leading and one trailing hyphen removed
StripHyphens(s) ==
    LET a == IF s # <<>> /\ Head(s) = "-" THEN Tail(s) ELSE s
    IN IF a # <<>> /\ a[Len(a)] = "-" THEN SubSeq(a, 1, Len(a) - 1) ELSE a

slugify(name) ==
    StripHyphens(CollapseRuns([i \in 1..Len(name) |-> ToLower(name[i])], FALSE))

\* the slug schedule_job derives from name and optional source
JobSlug(name, source) ==
    IF source # UNDEF /\ source # <<>> THEN source \o <<"-">> \o slugify(name) ELSE slugify(name)

\* sanitizeJob without its call of validateRunSpec
sanitizeJobUnvalidated(job) ==
    LET url == normalizeAttachUrl(job.attachUrl)
    IN IF url.threw THEN [threw |-> TRUE, job |-> job]
       ELSE [threw |-> FALSE,
             job |-> [job EXCEPT !.run = IF job.run = <<>> THEN <<>>
                                          ELSE <<normalizeRunSpec(job.run[1])>>,
                                 !.attachUrl = url.url,
                                 !.prompt = TrimToUndef(job.prompt)]]

\* [threw, job]: run spec normalized and validated, legacy fields trimmed
sanitizeJob(job) ==
    LET normalized == IF job.run = <<>> THEN EmptyRun ELSE normalizeRunSpec(job.run[1])
        url == normalizeAttachUrl(job.attachUrl)
    IN IF job.run # <<>> /\ ~validateRunSpec(normalized) THEN [threw |-> TRUE, job |-> job]
       ELSE IF url.threw THEN [threw |-> TRUE, job |-> job]
       ELSE [threw |-> FALSE,
             job |-> [job EXCEPT !.run = IF job.run = <<>> THEN <<>> ELSE <<normalized>>,
                                 !.attachUrl = url.url,
                                 !.prompt = TrimToUndef(job.prompt)]]

\* a decoded JSON value that is not a string where a string is expected
NotAString == <<"#number">>

\* typeof v === "string"
IsString(v) == v # UNDEF /\ v # NotAString

\* typeof v === "string" ? v : undefined
StringOr(v) == IF IsString(v) THEN v ELSE UNDEF

\* normalizeJobRun: <<>> (undefined) when raw is not an object, else the run
\* spec made of the fields of raw that have the expected type
normalizeJobRun(raw) ==
    IF raw = <<>> THEN <<>>
    ELSE << [prompt    |-> StringOr(raw[1].prompt),
             command   |-> StringOr(raw[1].command),
             arguments |-> StringOr(raw[1].arguments),
             files     |-> raw[1].files,
             agent     |-> StringOr(raw[1].agent),
             model     |-> StringOr(raw[1].model),
             variant   |-> StringOr(raw[1].variant),
             title     |-> StringOr(raw[1].title),
             share     |-> raw[1].share,
             continue  |-> raw[1].continue,
             session   |-> StringOr(raw[1].session),
             runFormat |-> IF IsString(raw[1].runFormat)
                           THEN normalizeRunFormat(raw[1].runFormat) ELSE UNDEF,
             attachUrl |-> StringOr(raw[1].attachUrl),
             port      |-> raw[1].port] >>

\* the run statuses and run sources a record may hold
RunStatuses == {"running", "success", "failed"}
RunSources == {"manual", "scheduled"}

\* normalizeJob on the decoded value raw (<<>> when it is not an object) read
\* at time clock: [threw, job] with job <<>> for null. It ends in sanitizeJob,
\* whose throw is not caught here.
normalizeJob(raw, clock) ==
    IF raw = <<>> THEN [threw |-> FALSE, job |-> <<>>]
    ELSE IF ~IsString(raw[1].slug) \/ ~IsString(raw[1].name) \/ ~IsString(raw[1].schedule)
    THEN [threw |-> FALSE, job |-> <<>>]
    ELSE LET sane == sanitizeJob(
                 [slug |-> raw[1].slug, name |-> raw[1].name, schedule |-> raw[1].schedule,
                  source |-> StringOr(raw[1].source), workdir |-> StringOr(raw[1].workdir),
                  createdAt |-> IF raw[1].createdAt # <<>> THEN raw[1].createdAt[1] ELSE clock,
                  updatedAt |-> raw[1].updatedAt, lastRunAt |-> raw[1].lastRunAt,
                  lastRunExitCode |-> raw[1].lastRunExitCode,
                  lastRunError |-> StringOr(raw[1].lastRunError),
                  lastRunSource |-> IF raw[1].lastRunSource \in RunSources
                                    THEN raw[1].lastRunSource ELSE "undefined",
                  lastRunStatus |-> IF raw[1].lastRunStatus \in RunStatuses
                                    THEN raw[1].lastRunStatus ELSE "undefined",
                  prompt |-> StringOr(raw[1].prompt),
                  attachUrl |-> StringOr(raw[1].attachUrl),
                  run |-> normalizeJobRun(raw[1].run)])
         IN [threw |-> sane.threw, job |-> IF sane.threw THEN <<>> ELSE <<sane.job>>]

\* loadJob(slug) on the store st: <<>> (null) or <<job>>. A stored record is
\* decoded by normalizeJob, which ends in sanitizeJob; a throw there is null.
loadJob(st, slug) ==
    IF slug \notin DOMAIN st \/ st[slug] = <<>> THEN <<>>
    ELSE LET sane == sanitizeJob(st[slug][1])
         IN IF sane.threw THEN <<>> ELSE <<sane.job>>

loadAllJobs(st) == {loadJob(st, sl)[1] : sl \in {x \in DOMAIN st : loadJob(st, x) # <<>>}}

EndsWith(s, suffix) ==
    Len(s) >= Len(suffix) /\ SubSeq(s, Len(s) - Len(suffix) + 1, Len(s)) = suffix

Includes(s, part) ==
    \E i \in 1..(Len(s) - Len(part) + 1) : SubSeq(s, i, i + Len(part) - 1) = part

LowerCase(s) == [i \in 1..Len(s) |-> ToLower(s[i])]

\* the jobs findJobByName may return (empty: null). The directory order that
\* decides between several fuzzy matches is not fixed, so each is possible.
findJobByName(st, name) ==
    LET slug == slugify(name)
        bySlug == loadJob(st, slug)
        byName == loadJob(st, name)
    IN IF bySlug # <<>> THEN {bySlug[1]}
       ELSE IF byName # <<>> THEN {byName[1]}
       ELSE {j \in loadAllJobs(st) :
                \/ j.slug = name
                \/ EndsWith(j.slug, <<"-">> \o slug)
                \/ LowerCase(j.name) = LowerCase(name)
                \/ Includes(LowerCase(j.name), LowerCase(name))}

\* saveJob: [threw, st, wrote]. sanitizeJob may throw before anything is
\* written; writeFileSync may fail (ioFails), leaving the file as it was.
saveJob(st, job, ioFails) ==
    LET sane == sanitizeJob(job)
    IN IF sane.threw \/ ioFails THEN [threw |-> TRUE, st |-> st, wrote |-> FALSE]
       ELSE [threw |-> FALSE, st |-> [st EXCEPT ![job.slug] = <<sane.job>>], wrote |-> TRUE]

\* a delete that leaves the record file where it is
keepJobFile(st, slug) == st

deleteJobFile(st, slug) == [st EXCEPT ![slug] = <<>>]

----------------------------------------------------------------------------
(* Scheduler adapters *)

\* createLaunchdPlist: [threw, unit]. It throws when the schedule does not
\* compile or the invocation does not build; the unit is what the file holds.
createLaunchdPlist(job) ==
    [threw |-> ~validateCronExpression(job.schedule) \/ buildOpencodeArgs(job).threw,
     unit |-> [name |-> job.name, schedule |-> job.schedule, workdir |-> job.workdir,
               args |-> buildOpencodeArgs(job).args]]

\* createSystemdService: [threw, unit]
createSystemdService(job) ==
    [threw |-> buildOpencodeArgs(job).threw,
     unit |-> [name |-> job.name, workdir |-> job.workdir,
               args |-> buildOpencodeArgs(job).args]]

\* createSystemdTimer: [threw, unit]
createSystemdTimer(job) ==
    [threw |-> ~validateCronExpression(job.schedule),
     unit |-> [name |-> job.name, schedule |-> job.schedule]]

\* the unit of one slug: launchd plist file and loaded job; systemd service
\* and timer files, timer enabled, timer started
NoUnit ==
    [plist |-> <<>>, loaded |-> <<>>, service |-> <<>>, timer |-> <<>>,
     enabled |-> FALSE, active |-> FALSE]

\* what an adapter call did: the unit state it leaves, whether it threw, the
\* files it wrote, the commands it ran, and the steps it attempted in order
\* (the last one is the step that failed when the call threw at a step)
Outcome(u, threw, writes, cmds, steps) ==
    [unit |-> u, threw |-> threw, writes |-> writes, cmds |-> cmds, steps |-> steps]

\* launchctl unload; a failure is ignored
Unloaded(u, failAt) == IF failAt \in {1, 4, 5} THEN u ELSE [u EXCEPT !.loaded = <<>>]

\* the steps of installLaunchdJob with the plist rendered; failAt: 0 nothing
\* fails, 1 unload, 2 write, 3 load, 4 unload and write, 5 unload and load
LaunchdInstallSteps(u, plist, failAt) ==
    IF plist.threw THEN Outcome(Unloaded(u, failAt), TRUE, 0, 1, <<"unload">>)
    ELSE IF failAt \in {2, 4}
    THEN Outcome(Unloaded(u, failAt), TRUE, 0, 1, <<"unload", "write plist">>)
    ELSE IF failAt \in {3, 5}
    THEN Outcome([Unloaded(u, failAt) EXCEPT !.plist = <<plist.unit>>], TRUE, 1, 2,
                 <<"unload", "write plist", "load">>)
    ELSE Outcome([u EXCEPT !.plist = <<plist.unit>>, !.loaded = <<plist.unit>>], FALSE, 1, 2,
                 <<"unload", "write plist", "load">>)

installLaunchdJob(u, job, failAt) == LaunchdInstallSteps(u, createLaunchdPlist(job), failAt)

\* an installSystemdJob that swallows the failure of a systemctl command
SystemdInstallStepsSwallowing(u, service, timer, failAt) ==
    IF service.threw THEN Outcome(u, TRUE, 0, 0, <<>>)
    ELSE IF failAt = 1 THEN Outcome(u, TRUE, 0, 0, <<"write service">>)
    ELSE IF timer.threw
    THEN Outcome([u EXCEPT !.service = <<service.unit>>], TRUE, 1, 0, <<"write service">>)
    ELSE IF failAt = 2
    THEN Outcome([u EXCEPT !.service = <<service.unit>>], TRUE, 1, 0,
                 <<"write service", "write timer">>)
    ELSE Outcome([u EXCEPT !.service = <<service.unit>>, !.timer = <<timer.unit>>,
                           !.enabled = (failAt \notin {3, 4}), !.active = (failAt = 0)],
                 FALSE, 2, 3,
                 <<"write service", "write timer", "daemon-reload", "enable", "start">>)

\* the steps of installSystemdJob with both units rendered; failAt: 0 nothing
\* fails, 1 write service, 2 write timer, 3 daemon-reload, 4 enable, 5 start
SystemdInstallSteps(u, service, timer, failAt) ==
    IF service.threw THEN Outcome(u, TRUE, 0, 0, <<>>)
    ELSE IF failAt = 1 THEN Outcome(u, TRUE, 0, 0, <<"write service">>)
    ELSE IF timer.threw
    THEN Outcome([u EXCEPT !.service = <<service.unit>>], TRUE, 1, 0, <<"write service">>)
    ELSE IF failAt = 2
    THEN Outcome([u EXCEPT !.service = <<service.unit>>], TRUE, 1, 0,
                 <<"write service", "write timer">>)
    ELSE IF failAt = 3
    THEN Outcome([u EXCEPT !.service = <<service.unit>>, !.timer = <<timer.unit>>],
                 TRUE, 2, 1, <<"write service", "write timer", "daemon-reload">>)
    ELSE IF failAt = 4
    THEN Outcome([u EXCEPT !.service = <<service.unit>>, !.timer = <<timer.unit>>],
                 TRUE, 2, 2, <<"write service", "write timer", "daemon-reload", "enable">>)
    ELSE IF failAt = 5
    THEN Outcome([u EXCEPT !.service = <<service.unit>>, !.timer = <<timer.unit>>,
                           !.enabled = TRUE], TRUE, 2, 3,
                 <<"write service", "write timer", "daemon-reload", "enable", "start">>)
    ELSE Outcome([u EXCEPT !.service = <<service.unit>>, !.timer = <<timer.unit>>,
                           !.enabled = TRUE, !.active = TRUE], FALSE, 2, 3,
                 <<"write service", "write timer", "daemon-reload", "enable", "start">>)

installSystemdJob(u, job, failAt) ==
    SystemdInstallSteps(u, createSystemdService(job), createSystemdTimer(job), failAt)

installJob(plat, u, job, failAt) ==
    IF plat = "darwin" THEN installLaunchdJob(u, job, failAt)
    ELSE IF plat = "linux" THEN installSystemdJob(u, job, failAt)
    ELSE Outcome(u, TRUE, 0, 0, <<>>)

\* the failure points installJob has on a platform
InstallFailures(plat) == IF plat \in {"darwin", "linux"} THEN {0, 3} ELSE {0}

\* uninstallLaunchdJob; failAt: 0 nothing fails, 1 unload
uninstallLaunchdJob(u, failAt) ==
    IF u.plist = <<>> THEN Outcome(u, FALSE, 0, 0, <<>>)
    ELSE Outcome([u EXCEPT !.plist = <<>>, !.loaded = IF failAt = 1 THEN u.loaded ELSE <<>>],
                 FALSE, 0, 1, <<"unload", "delete plist">>)

\* the unit files uninstallSystemdJob finds and unlinks
UnlinkSteps(u) ==
    (IF u.service # <<>> THEN <<"delete service">> ELSE <<>>)
    \o (IF u.timer # <<>> THEN <<"delete timer">> ELSE <<>>)

\* uninstallSystemdJob; failAt: 0 nothing fails, 1 stop, 2 disable,
\* 3 the final daemon-reload. stop and disable share one try block.
uninstallSystemdJob(u, failAt) ==
    LET stopped == IF failAt = 1 THEN u ELSE [u EXCEPT !.active = FALSE]
        disabled == IF failAt \in {1, 2} THEN stopped ELSE [stopped EXCEPT !.enabled = FALSE]
    IN Outcome([disabled EXCEPT !.service = <<>>, !.timer = <<>>], FALSE, 0,
               IF failAt = 1 THEN 2 ELSE 3,
               (IF failAt = 1 THEN <<"stop">> ELSE <<"stop", "disable">>)
               \o UnlinkSteps(u) \o <<"daemon-reload">>)

uninstallJob(plat, u, failAt) ==
    IF plat = "darwin" THEN uninstallLaunchdJob(u, failAt)
    ELSE IF plat = "linux" THEN uninstallSystemdJob(u, failAt)
    ELSE Outcome(u, FALSE, 0, 0, <<>>)

UninstallFailures(plat) ==
    IF plat \in {"darwin", "linux"} THEN 0..1 ELSE {0}

----------------------------------------------------------------------------
(* Cron compiler: inputs and the specification that exercises it *)

Str0 == <<"0">>
Str9 == <<"9">>
Str1 == <<"1">>
Str7 == <<"7">>

MinuteFields == {Star, Str0, <<"*", "/", "3", "0">>, <<"5", ",", "1", ",", "5">>,
                 <<"7", "0">>, <<"*", "/", "0">>}
HourFields == {Star, Str9, <<"*", "/", "1", "2">>}
DayFields == {Star, Str1, <<"1", ",", "1", "5">>}
MonthFields == {Star, <<"6">>}
WeekdayFields == {Star, Str1, Str0, Str7, <<"1", ",", "7">>, <<"1", ",", "0">>,
                  <<"*", "/", "7">>, <<"*", "/", "3">>, <<"0", "7">>, <<"8">>}

JoinFields(a, b, c, d, e) ==
    a \o <<" ">> \o b \o <<" ">> \o c \o <<" ">> \o d \o <<" ">> \o e

\* fields of the documented shapes and fields of other shapes
StrStep15 == <<"*", "/", "1", "5">>
StrStep7 == <<"*", "/", "7">>
StrList5153 == <<"5", ",", "1", ",", "5", ",", "3">>
OddFields == {<<"3", "-", "5">>,
              <<"1", ",", "3", "-", "5">>,
              <<"*", "/", "5", "x">>,
              <<"5", "x">>,
              <<"1", ",", ",", "2">>,
              <<"*", "/">>,
              <<"1", ",", "2", "x">>,
              <<"-", "5">>,
              <<"*", "/", "-", "5">>}

ShapeCases ==
    {JoinFields(StrStep15, StrStep7, Star, Star, Star),
     JoinFields(StrList5153, Star, Star, Star, Star),
     JoinFields(Star, Star, Star, Star, <<"1", "-", "5">>)}
    \cup {JoinFields(f, Star, Star, Star, Star) : f \in OddFields}

CronInputs ==
    {JoinFields(a, b, c, d, e) :
        a \in MinuteFields, b \in HourFields, c \in DayFields,
        d \in MonthFields, e \in WeekdayFields}
    \cup {<<"*", " ", "*", " ", "*">>,
          <<" ", "0", " ", " ", "9", " ", "*", " ", "*", " ", "*", " ">>}
    \cup ShapeCases

NotRun == [ran |-> FALSE, threw |-> FALSE, out |-> <<>>]

\* the invocation builder at rest
NoJob == [run |-> <<>>, prompt |-> UNDEF, attachUrl |-> UNDEF]
NotBuilt == [ran |-> FALSE, threw |-> FALSE, args |-> <<>>]
ArgsIdle == argJob = NoJob /\ argsOut = NotBuilt

\* the slug derivation at rest
NotDerived == [ran |-> FALSE, slug |-> <<>>]
SlugIdle == slugName = <<>> /\ slugSource = UNDEF /\ slugOut = NotDerived

\* the adapters at rest
NoCall == [op |-> "none", failAt |-> 0, calls |-> 0, threw |-> FALSE, steps |-> <<>>]
AdapterIdle == adPlat = "linux" /\ adUnit = <<>> /\ adJob = <<>> /\ adOut = NoCall

\* the record decoder at rest
NotDecoded == [ran |-> FALSE, threw |-> FALSE, job |-> <<>>]
NormIdle == normRaw = <<>> /\ normOut = NotDecoded

\* the scheduler at rest
SysIdle ==
    /\ platform = "linux" /\ store = <<>> /\ units = <<>> /\ children = {} /\ logs = <<>>
    /\ spawned = 0 /\ now = 0 /\ last = <<>>
Ran(r) == [ran |-> TRUE, threw |-> r.threw, out |-> r.out]

CronInit ==
    /\ cronExpr \in CronInputs
    /\ launchdOut = NotRun
    /\ systemdOut = NotRun
    /\ validateOut = NotRun
    /\ ArgsIdle
    /\ SlugIdle
    /\ AdapterIdle
    /\ NormIdle
    /\ SysIdle

CompileLaunchd ==
    /\ ~launchdOut.ran
    /\ launchdOut' = Ran(cronToLaunchdCalendars(cronExpr))
    /\ UNCHANGED <<cronExpr, systemdOut, validateOut, argVars, slugVars, adapterVars, normVars, sysVars>>

CompileSystemd ==
    /\ ~systemdOut.ran
    /\ systemdOut' = Ran(cronToSystemdCalendars(cronExpr))
    /\ UNCHANGED <<cronExpr, launchdOut, validateOut, argVars, slugVars, adapterVars, normVars, sysVars>>

ValidateCron ==
    /\ ~validateOut.ran
    /\ validateOut' = [ran |-> TRUE, threw |-> ~validateCronExpression(cronExpr), out |-> <<>>]
    /\ UNCHANGED <<cronExpr, launchdOut, systemdOut, argVars, slugVars, adapterVars, normVars, sysVars>>

CronNext == CompileLaunchd \/ CompileSystemd \/ ValidateCron

SpecCron == CronInit /\ [][CronNext]_vars

----------------------------------------------------------------------------
(* Properties of the cron compiler *)

CronParts == splitCronExpression(cronExpr).parts
CronParsed == ParseFields(CronParts)
CronAccepted == validateCronExpression(cronExpr)
BothDaysConstrained ==
    CronAccepted /\ CronParsed.day.kind = "values" /\ CronParsed.weekday.kind = "values"

FieldCard(f) == IF f.kind = "null" THEN 1 ELSE Len(f.values)
FieldSet(f) == {f.values[i] : i \in 1..Len(f.values)}
SeqRange(s) == {s[i] : i \in 1..Len(s)}

\* the partial entries a field contributes: nothing when it is a wildcard
KeyOptions(key, f) ==
    IF f.kind = "null" THEN {<<>>} ELSE {key :> v : v \in FieldSet(f)}

\* the launchd entries of one family: day key is "Day" or "Weekday"
LaunchdFamily(p, dayKey, dayField) ==
    {m @@ h @@ mo @@ d :
        m \in KeyOptions("Minute", p.minute), h \in KeyOptions("Hour", p.hour),
        mo \in KeyOptions("Month", p.month), d \in KeyOptions(dayKey, dayField)}

TwoDigits(n) == <<Digits[(n \div 10) + 1], Digits[(n % 10) + 1]>>
DayNames == [w \in 0..6 |->
    CASE w = 0 -> <<"S", "u", "n">> [] w = 1 -> <<"M", "o", "n">> [] w = 2 -> <<"T", "u", "e">>
      [] w = 3 -> <<"W", "e", "d">> [] w = 4 -> <<"T", "h", "u">> [] w = 5 -> <<"F", "r", "i">>
      [] OTHER -> <<"S", "a", "t">>]

TextSet(f) == IF f.kind = "null" THEN {Star} ELSE {TwoDigits(v) : v \in FieldSet(f)}

\* the timer lines of one family, written out as text
SystemdFamily(p, doms, dows) ==
    {dw \o <<" ", "*", "-">> \o mo \o <<"-">> \o dm \o <<" ">> \o h \o <<":">> \o m \o <<":", "0", "0">> :
        dw \in dows, mo \in TextSet(p.month), dm \in doms, h \in TextSet(p.hour), m \in TextSet(p.minute)}

C1_LaunchdUnion ==
    (launchdOut.ran /\ BothDaysConstrained) =>
        LET p == CronParsed
            out == launchdOut.out
            a == FieldCard(p.minute) * FieldCard(p.hour) * FieldCard(p.day) * FieldCard(p.month)
            b == FieldCard(p.minute) * FieldCard(p.hour) * FieldCard(p.month) * FieldCard(p.weekday)
        IN /\ ~launchdOut.threw
           /\ Len(out) = a + b
           /\ {out[i] : i \in 1..a} = LaunchdFamily(p, "Day", p.day)
           /\ {out[i] : i \in (a + 1)..(a + b)} = LaunchdFamily(p, "Weekday", p.weekday)
           /\ \A i \in 1..Len(out) : ~({"Day", "Weekday"} \subseteq DOMAIN out[i])

C1_SystemdUnion ==
    (systemdOut.ran /\ BothDaysConstrained) =>
        LET p == CronParsed
            out == systemdOut.out
            a == FieldCard(p.minute) * FieldCard(p.hour) * FieldCard(p.day) * FieldCard(p.month)
            b == FieldCard(p.minute) * FieldCard(p.hour) * FieldCard(p.month) * FieldCard(p.weekday)
        IN /\ ~systemdOut.threw
           /\ Len(out) = a + b
           /\ {out[i] : i \in 1..a} = SystemdFamily(p, TextSet(p.day), {Star})
           /\ {out[i] : i \in (a + 1)..(a + b)} =
                 SystemdFamily(p, {Star}, {DayNames[w % 7] : w \in FieldSet(p.weekday)})

ExprUnion == <<"0", " ", "9", " ", "1", " ", "*", " ", "1">>

C1_Example ==
    /\ (launchdOut.ran /\ cronExpr = ExprUnion) =>
          launchdOut.out = << [Minute |-> 0, Hour |-> 9, Day |-> 1],
                              [Minute |-> 0, Hour |-> 9, Weekday |-> 1] >>
    /\ (systemdOut.ran /\ cronExpr = ExprUnion) =>
          systemdOut.out =
             << <<"*", " ", "*", "-", "*", "-", "0", "1", " ", "0", "9", ":", "0", "0", ":", "0", "0">>,
                <<"M", "o", "n", " ", "*", "-", "*", "-", "*", " ", "0", "9", ":", "0", "0", ":", "0", "0">> >>

\* C1: when day-of-month and day-of-week are both constrained, each compiler
\* returns the day-of-month family (weekday free) followed by the day-of-week
\* family (day-of-month free), every entry of the second family fixing a
\* weekday; "0 9 1 * 1" gives exactly the two expected entries.
C1_UnionOfDayFamilies == C1_LaunchdUnion /\ C1_SystemdUnion /\ C1_Example

\* the day-of-week field with every element 7 written as 0
SevenAsZero(field) ==
    IF StartsWith(field, <<"*">>) THEN field
    ELSE LET parts == SplitChar(field, ",", <<>>)
             fixed == [i \in 1..Len(parts) |-> IF ParseInt(parts[i]) = <<7>> THEN Str0 ELSE parts[i]]
         IN Concat([i \in 1..Len(fixed) |-> IF i = 1 THEN fixed[i] ELSE <<",">> \o fixed[i]])

CronWithZero ==
    JoinFields(CronParts[1], CronParts[2], CronParts[3], CronParts[4], SevenAsZero(CronParts[5]))

\* C9: in the day-of-week field 7 is the same as 0 in every output path:
\* no compiled entry carries weekday 7 (parseCronField never returns 7), and
\* an expression with a 7 compiles to what the expression with 0 compiles to.
C9_SevenIsZero ==
    /\ (launchdOut.ran /\ CronAccepted) =>
          /\ \A i \in 1..Len(launchdOut.out) :
                "Weekday" \in DOMAIN launchdOut.out[i] => launchdOut.out[i].Weekday # 7
          /\ 7 \notin FieldSet(CronParsed.weekday)
          /\ launchdOut.out = cronToLaunchdCalendars(CronWithZero).out
    /\ (systemdOut.ran /\ CronAccepted) =>
          systemdOut.out = cronToSystemdCalendars(CronWithZero).out

\* the part of C9 that concerns a literal 7 (bare or in a list)
SevenLiteralIsZero ==
    /\ (launchdOut.ran /\ CronAccepted /\ ~StartsWith(CronParts[5], <<"*">>)) =>
          /\ 7 \notin FieldSet(CronParsed.weekday)
          /\ launchdOut.out = cronToLaunchdCalendars(CronWithZero).out
    /\ (systemdOut.ran /\ CronAccepted /\ ~StartsWith(CronParts[5], <<"*">>)) =>
          systemdOut.out = cronToSystemdCalendars(CronWithZero).out

\* the range of each of the five fields, and whether 7 stands for Sunday
FieldRanges ==
    << [min |-> 0, max |-> 59, seven |-> FALSE], [min |-> 0, max |-> 23, seven |-> FALSE],
       [min |-> 1, max |-> 31, seven |-> FALSE], [min |-> 1, max |-> 12, seven |-> FALSE],
       [min |-> 0, max |-> 7, seven |-> TRUE] >>

\* the number a string of digits denotes
RECURSIVE DecimalValue(_)
DecimalValue(s) ==
    IF s = <<>> THEN 0
    ELSE 10 * DecimalValue(SubSeq(s, 1, Len(s) - 1)) + DigitVal(s[Len(s)])

Elements(field) == SplitChar(field, ",", <<>>)
StepText(field) == SubSeq(field, 3, Len(field))

\* the documented shapes of a field
IsStep(field) ==
    StartsWith(field, <<"*", "/">>) /\ AllDigits(StepText(field)) /\ DecimalValue(StepText(field)) > 0
IsList(field) ==
    Len(Elements(field)) > 1 /\ \A i \in 1..Len(Elements(field)) : AllDigits(Elements(field)[i])
IsBare(field) == AllDigits(field)

ElementValue(e, r) == IF r.seven /\ DecimalValue(e) = 7 THEN 0 ELSE DecimalValue(e)

\* the values the reference parser gives a field of a documented shape
RefSet(field, r) ==
    IF IsStep(field)
    THEN {v \in r.min..r.max : (v - r.min) % DecimalValue(StepText(field)) = 0}
    ELSE {ElementValue(Elements(field)[i], r) : i \in 1..Len(Elements(field))}

\* a field the reference parser accepts: a documented shape, numbers in range
WellFormed(field, r) ==
    \/ field = Star
    \/ IsStep(field)
    \/ (IsList(field) \/ IsBare(field)) /\ RefSet(field, r) \subseteq r.min..r.max

Ascending(s) == \A i \in 1..(Len(s) - 1) : s[i] < s[i + 1]

\* parseCronField gives the field what the reference parser gives it
RefAgrees(field, r) ==
    LET got == parseCronField(field, r.min, r.max, r.seven)
    IN IF field = Star THEN got.kind = "null"
       ELSE /\ got.kind = "values"
            /\ Ascending(got.values)
            /\ SeqRange(got.values) = RefSet(field, r)
            /\ IsBare(field) => Len(got.values) = 1

CronSplits == ~splitCronExpression(cronExpr).threw

\* C15: on every accepted field parseCronField agrees with the reference
\* parser: "*" is the wildcard, "*/s" the arithmetic sequence from min by s up
\* to max, a comma list its elements without duplicates in ascending order,
\* a bare integer a singleton; "*/15" for minutes is 0,15,30,45, "*/7" for
\* hours is 0,7,14,21 and "5,1,5,3" for minutes is 1,3,5.
C15_AgreesWithReference ==
    (validateOut.ran /\ CronSplits) =>
        /\ \A i \in 1..5 :
              WellFormed(CronParts[i], FieldRanges[i]) => RefAgrees(CronParts[i], FieldRanges[i])
        /\ CronParts[1] = StrStep15 => CronParsed.minute = Values(<<0, 15, 30, 45>>)
        /\ CronParts[2] = StrStep7 => CronParsed.hour = Values(<<0, 7, 14, 21>>)
        /\ CronParts[1] = StrList5153 => CronParsed.minute = Values(<<1, 3, 5>>)

\* C15 happens: a list with duplicates out of order has been parsed
C15_Witness ==
    /\ validateOut.ran /\ ~validateOut.threw /\ launchdOut.ran
    /\ CronSplits /\ CronParts[1] = StrList5153

\* C16: every field that is not "*", a bare in-range integer, a comma list
\* of bare in-range integers or "*/step" with a positive integer step makes
\* validateCronExpression fail.
C16_OtherShapesRejected ==
    (validateOut.ran /\ CronSplits) =>
        ((\E i \in 1..5 : ~WellFormed(CronParts[i], FieldRanges[i])) => validateOut.threw)

\* the part of C16 that holds: a field that is neither a step nor a list is
\* rejected unless it is "*" or a bare in-range integer
C16_BareShapesRejected ==
    (validateOut.ran /\ CronSplits) =>
        ((\E i \in 1..5 : /\ ~WellFormed(CronParts[i], FieldRanges[i])
                          /\ ~StartsWith(CronParts[i], <<"*", "/">>)
                          /\ Len(Elements(CronParts[i])) = 1) => validateOut.threw)

\* the parts of one timer line: weekday, month, day, hour, minute, and
\* whether the fixed text around them is as expected
LineParts(line) ==
    LET words == SplitChar(line, " ", <<>>)
        date == IF Len(words) = 3 THEN SplitChar(words[2], "-", <<>>) ELSE <<>>
        time == IF Len(words) = 3 THEN SplitChar(words[3], ":", <<>>) ELSE <<>>
    IN IF Len(words) = 3 /\ Len(date) = 3 /\ Len(time) = 3
       THEN [shaped |-> date[1] = Star /\ time[3] = <<"0", "0">>,
             weekday |-> words[1], month |-> date[2], day |-> date[3],
             hour |-> time[1], minute |-> time[2]]
       ELSE [shaped |-> FALSE, weekday |-> <<>>, month |-> <<>>, day |-> <<>>,
             hour |-> <<>>, minute |-> <<>>]

\* a component is "*" when its field is free and two digits in range otherwise
NumberPart(text, free, r) ==
    IF free THEN text = Star
    ELSE Len(text) = 2 /\ AllDigits(text) /\ DecimalValue(text) \in r.min..r.max

NamePart(text, free) ==
    IF free THEN text = Star ELSE text \in {DayNames[w] : w \in 0..6}

Free(f) == f.kind = "null"

\* line number i of the timer output has the documented form for fields p;
\* in a union the first family leaves the weekday free, the second the day
LineFormed(line, p, i) ==
    LET parts == LineParts(line)
        both == ~Free(p.day) /\ ~Free(p.weekday)
        first == FieldCard(p.minute) * FieldCard(p.hour) * FieldCard(p.day) * FieldCard(p.month)
    IN /\ parts.shaped
       /\ NumberPart(parts.minute, Free(p.minute), FieldRanges[1])
       /\ NumberPart(parts.hour, Free(p.hour), FieldRanges[2])
       /\ NumberPart(parts.day, Free(p.day) \/ (both /\ i > first), FieldRanges[3])
       /\ NumberPart(parts.month, Free(p.month), FieldRanges[4])
       /\ NamePart(parts.weekday, Free(p.weekday) \/ (both /\ i <= first))

ExprDaily == <<"0", " ", "9", " ", "*", " ", "*", " ", "*">>
LineDaily ==
    <<"*", " ", "*", "-", "*", "-", "*", " ", "0", "9", ":", "0", "0", ":", "0", "0">>

C21_Example ==
    /\ (systemdOut.ran /\ cronExpr = ExprDaily) => systemdOut.out = <<LineDaily>>
    /\ (launchdOut.ran /\ cronExpr = ExprDaily) => launchdOut.out = <<[Minute |-> 0, Hour |-> 9]>>

\* C21: for every valid expression each timer line reads
\* "<Sun..Sat|*> *-<MM|*>-<DD|*> <HH|*>:<MM|*>:00" with two-digit numbers,
\* a component being "*" exactly when its field is free in that entry;
\* "0 9 * * *" gives the one line "* *-*-* 09:00:00" and the one daemon
\* entry {Minute: 0, Hour: 9}.
C21_TimerLineForm ==
    /\ (systemdOut.ran /\ CronAccepted) =>
          /\ ~systemdOut.threw
          /\ \A i \in 1..Len(systemdOut.out) : LineFormed(systemdOut.out[i], CronParsed, i)
    /\ C21_Example

\* the part of C21 that holds: the form of every line of an expression whose
\* day-of-week values are all below 7
C21_FormBelowSeven ==
    /\ (systemdOut.ran /\ CronAccepted /\ 7 \notin FieldSet(CronParsed.weekday)) =>
          /\ ~systemdOut.threw
          /\ \A i \in 1..Len(systemdOut.out) : LineFormed(systemdOut.out[i], CronParsed, i)
    /\ C21_Example

\* the instants at which a schedule is asked whether it fires
InstantMinutes == {0, 1, 30}
InstantHours == {0, 9, 12}
InstantDays == {1, 2, 15}
InstantMonths == {1, 6}
Instants ==
    [minute : InstantMinutes, hour : InstantHours, day : InstantDays,
     month : InstantMonths, weekday : 0..6]

\* one field of a cron expression matches a value, under cron's reading of
\* the field; in the day-of-week field 7 is Sunday
FieldMatches(field, r, v) ==
    \/ field = Star
    \/ v \in {IF r.seven THEN x % 7 ELSE x : x \in RefSet(field, r)}

\* cron's own reading of the five fields: the two day fields are united
\* when both are constrained and intersected otherwise
CronMatches(parts, t) ==
    LET dom == FieldMatches(parts[3], FieldRanges[3], t.day)
        dow == FieldMatches(parts[5], FieldRanges[5], t.weekday)
    IN /\ FieldMatches(parts[1], FieldRanges[1], t.minute)
       /\ FieldMatches(parts[2], FieldRanges[2], t.hour)
       /\ FieldMatches(parts[4], FieldRanges[4], t.month)
       /\ IF parts[3] # Star /\ parts[5] # Star THEN dom \/ dow ELSE dom /\ dow

KeyMatches(entry, key, v) == key \in DOMAIN entry => entry[key] = v

\* launchd fires an entry when every key it has equals the instant's
\* component; Weekday 0 and 7 are both Sunday
LaunchdEntryMatches(entry, t) ==
    /\ KeyMatches(entry, "Minute", t.minute)
    /\ KeyMatches(entry, "Hour", t.hour)
    /\ KeyMatches(entry, "Day", t.day)
    /\ KeyMatches(entry, "Month", t.month)
    /\ "Weekday" \in DOMAIN entry => entry["Weekday"] % 7 = t.weekday

TextMatches(text, v) == text = Star \/ (AllDigits(text) /\ DecimalValue(text) = v)

\* systemd fires a calendar line when every component that is not "*"
\* equals the instant's component
TimerLineMatches(parts, t) ==
    /\ parts.shaped
    /\ parts.weekday = Star \/ parts.weekday = DayNames[t.weekday]
    /\ TextMatches(parts.month, t.month)
    /\ TextMatches(parts.day, t.day)
    /\ TextMatches(parts.hour, t.hour)
    /\ TextMatches(parts.minute, t.minute)

LaunchdFires(entries, t) == \E i \in 1..Len(entries) : LaunchdEntryMatches(entries[i], t)
TimerFires(lines, t) == \E i \in 1..Len(lines) : TimerLineMatches(lines[i], t)

CronWellFormed ==
    CronSplits /\ \A i \in 1..5 : WellFormed(CronParts[i], FieldRanges[i])

LaunchdEquivalent(entries, parts) ==
    \A t \in Instants : LaunchdFires(entries, t) <=> CronMatches(parts, t)
TimerEquivalent(lines, parts) ==
    \A t \in Instants : TimerFires(lines, t) <=> CronMatches(parts, t)

ParsedLines(out) == [i \in 1..Len(out) |-> LineParts(out[i])]

\* C31: for every valid expression and every instant, the instant matches
\* an entry of cronToLaunchdCalendars, and a line of cronToSystemdCalendars,
\* exactly when it matches the expression under cron's semantics (minute,
\* hour and month match; the day matches by day-of-month and day-of-week
\* when at most one is constrained, by either when both are).
C31_CalendarsRefineCron ==
    /\ (launchdOut.ran /\ CronWellFormed) =>
          ~launchdOut.threw /\ LaunchdEquivalent(launchdOut.out, CronParts)
    /\ (systemdOut.ran /\ CronWellFormed) =>
          ~systemdOut.threw /\ TimerEquivalent(ParsedLines(systemdOut.out), CronParts)

\* the part of C31 that holds: the daemon entries of every valid expression,
\* and the timer lines of one whose day-of-week values are all below 7
C31_RefinesBelowSeven ==
    /\ (launchdOut.ran /\ CronWellFormed) =>
          ~launchdOut.threw /\ LaunchdEquivalent(launchdOut.out, CronParts)
    /\ (systemdOut.ran /\ CronWellFormed /\ 7 \notin FieldSet(CronParsed.weekday)) =>
          ~systemdOut.threw /\ TimerEquivalent(ParsedLines(systemdOut.out), CronParts)

----------------------------------------------------------------------------
(* Invocation builder: inputs and the specification that exercises it *)

StrHi == <<"h", "i">>
StrHiPadded == <<" ", "h", "i", " ">>
StrBlank == <<" ">>
StrEcho == <<"e", "c", "h", "o">>
StrUrl == <<"h", ":", "/", "a">>
StrBadUrl == <<"n", "o">>
StrAgent == <<"a", "1">>
StrModel == <<"m", "1">>
StrVariant == <<"v", "1">>
StrTitle == <<"t", "1">>
StrSession == <<"s", "1">>
StrFileA == <<"f", "1">>
StrFileB == <<"f", "2">>
Port8080 == <<16160>>

ArgRuns ==
    [prompt : {UNDEF, StrHiPadded, StrBlank}, command : {UNDEF, StrEcho},
     arguments : {UNDEF, StrHi}, files : {<<>>, <<StrFileB, StrFileA>>},
     agent : {UNDEF, StrAgent}, model : {UNDEF, StrModel}, variant : {UNDEF, StrVariant},
     title : {UNDEF, StrTitle}, share : {<<>>, <<TRUE>>}, continue : {<<FALSE>>, <<TRUE>>},
     session : {UNDEF, StrSession}, runFormat : {UNDEF, StrJson},
     attachUrl : {UNDEF, StrUrl}, port : {<<>>, Port8080}]

\* records that carry a run spec next to the legacy fields of an older version
StrOld == <<"o", "l", "d">>
StrOldUrl == <<"o", ":", "/", "b">>
MixedJobs ==
    [run : {<<[EmptyRun EXCEPT !.command = StrEcho, !.arguments = StrHi]>>,
            <<[EmptyRun EXCEPT !.prompt = StrHiPadded, !.attachUrl = StrUrl]>>,
            <<[EmptyRun EXCEPT !.prompt = StrHi]>>},
     prompt : {StrOld, StrBlank}, attachUrl : {UNDEF, StrOldUrl, StrBadUrl}]

ArgJobs ==
    {[run |-> <<r>>, prompt |-> UNDEF, attachUrl |-> UNDEF] : r \in ArgRuns}
    \cup [run : {<<>>}, prompt : {UNDEF, StrHiPadded, StrBlank}, attachUrl : {UNDEF, StrUrl, StrBadUrl}]
    \cup MixedJobs

CronIdle ==
    cronExpr = <<>> /\ launchdOut = NotRun /\ systemdOut = NotRun /\ validateOut = NotRun

ArgsInit ==
    argJob \in ArgJobs /\ argsOut = NotBuilt /\ CronIdle /\ SlugIdle /\ AdapterIdle
    /\ NormIdle /\ SysIdle

BuildArgs ==
    /\ ~argsOut.ran
    /\ argsOut' = [ran |-> TRUE, threw |-> buildOpencodeArgs(argJob).threw,
                   args |-> buildOpencodeArgs(argJob).args]
    /\ UNCHANGED <<argJob, cronVars, slugVars, adapterVars, normVars, sysVars>>

ArgsNext == BuildArgs

SpecArgs == ArgsInit /\ [][ArgsNext]_vars

----------------------------------------------------------------------------
(* Properties of the invocation builder *)

ValueFlags == {FlagAttach, FlagPort, FlagCommand, FlagAgent, FlagModel, FlagVariant,
               FlagFormat, FlagTitle, FlagSession, FlagFile}
BareFlags == {FlagShare, FlagContinue}
AllFlags == ValueFlags \cup BareFlags

\* the order the source pushes the switches in
PushOrder == <<FlagAttach, FlagPort, FlagCommand, FlagAgent, FlagModel, FlagVariant,
               FlagFormat, FlagShare, FlagTitle, FlagContinue, FlagSession, FlagFile>>

\* the order of section 4.3: valued switches, then the bare flags, then files
DocumentedOrder == <<FlagAttach, FlagPort, FlagCommand, FlagAgent, FlagModel, FlagVariant,
                     FlagFormat, FlagTitle, FlagSession, FlagShare, FlagContinue, FlagFile>>

RankIn(order, flag) == CHOOSE i \in 1..Len(order) : order[i] = flag

\* the run spec the builder works on
BuiltRun == normalizeRunSpec(getJobRun(argJob).run)

\* what the switch `flag` must carry for run spec r (UNDEF: switch absent)
FlagValue(r, flag) ==
    CASE flag = FlagAttach -> r.attachUrl
      [] flag = FlagPort -> IF r.port = <<>> THEN UNDEF ELSE NumToString(r.port[1] \div 2)
      [] flag = FlagCommand -> r.command
      [] flag = FlagAgent -> r.agent
      [] flag = FlagModel -> r.model
      [] flag = FlagVariant -> r.variant
      [] flag = FlagFormat -> r.runFormat
      [] flag = FlagTitle -> r.title
      [] OTHER -> r.session

ArgsInOrder(order) ==
    (argsOut.ran /\ ~argsOut.threw) =>
        LET a == argsOut.args
            r == BuiltRun
            n == Len(a)
            flagPos == {i \in 2..(n - 2) : a[i] \in AllFlags}
            filePos == {i \in flagPos : a[i] = FlagFile}
        IN /\ n >= 3
           /\ a[1] = TokRun
           /\ a[n - 1] = Terminator
           /\ a[n] = (IF r.command # UNDEF
                      THEN (IF r.arguments = UNDEF THEN <<>> ELSE r.arguments)
                      ELSE r.prompt)
           \* every token between "run" and "--" is a switch or the value of one
           /\ \A i \in 2..(n - 2) : i \in flagPos \/ (i - 1 \in flagPos /\ a[i - 1] \in ValueFlags)
           /\ \A i \in flagPos : a[i] \in ValueFlags => i + 1 \in 2..(n - 2) /\ i + 1 \notin flagPos
           \* the switches come in the given order, only --file repeating
           /\ \A i, j \in flagPos :
                 i < j => \/ RankIn(order, a[i]) < RankIn(order, a[j])
                          \/ (a[i] = FlagFile /\ a[j] = FlagFile)
           \* a switch is present exactly when its field is set, with its value
           /\ \A f \in ValueFlags \ {FlagFile} :
                 /\ (\E i \in flagPos : a[i] = f) <=> FlagValue(r, f) # UNDEF
                 /\ \A i \in flagPos : a[i] = f => a[i + 1] = FlagValue(r, f)
           /\ (\E i \in flagPos : a[i] = FlagShare) <=> r.share = <<TRUE>>
           /\ (\E i \in flagPos : a[i] = FlagContinue) <=> r.continue = <<TRUE>>
           \* one --file per attachment, in list order
           /\ Cardinality(filePos) = Len(r.files)
           /\ \A i \in filePos :
                 a[i + 1] = r.files[Cardinality({j \in filePos : j <= i})]

\* C10 as stated: run, --attach, --port, --command, --agent, --model,
\* --variant, --format, --title, --session, then --share, --continue, then
\* the --file pairs, "--" and one positional argument.
C10_DocumentedOrder == ArgsInOrder(DocumentedOrder)

\* C10 as amended: the same vector with --share emitted between --format and
\* --title and --continue between --title and --session.
C10_PushOrder == ArgsInOrder(PushOrder)

C10_Witness ==
    /\ argsOut.ran /\ ~argsOut.threw
    /\ BuiltRun.share = <<TRUE>> /\ BuiltRun.continue = <<TRUE>>
    /\ BuiltRun.title # UNDEF /\ BuiltRun.session # UNDEF /\ BuiltRun.runFormat # UNDEF
    /\ BuiltRun.attachUrl # UNDEF /\ BuiltRun.port # <<>> /\ BuiltRun.command # UNDEF
    /\ Len(BuiltRun.files) = 2

\* the builder has built the vector of a command run
CommandModeBuilt ==
    /\ argsOut.ran /\ ~argsOut.threw
    /\ BuiltRun.command # UNDEF /\ BuiltRun.prompt = UNDEF

\* the run spec sets nothing but the command and its arguments
OnlyCommand(r) ==
    /\ r.attachUrl = UNDEF /\ r.port = <<>> /\ r.agent = UNDEF /\ r.model = UNDEF
    /\ r.variant = UNDEF /\ r.runFormat = UNDEF /\ r.title = UNDEF /\ r.session = UNDEF
    /\ r.share # <<TRUE>> /\ r.continue # <<TRUE>> /\ r.files = <<>>

\* C18: the vector of a command run carries "--command" immediately followed
\* by the command, ends with "--" followed by one element, the arguments
\* string or "" when there is none, and carries no prompt text; for command
\* "echo" and arguments "hi" alone it is run, --command, echo, --, hi.
C18_CommandModeVector ==
    CommandModeBuilt =>
        LET a == argsOut.args
            r == BuiltRun
            n == Len(a)
        IN /\ n >= 5
           /\ a[1] = TokRun
           /\ \E i \in 2..(n - 3) : a[i] = FlagCommand /\ a[i + 1] = r.command
           /\ Cardinality({i \in 1..n : a[i] = FlagCommand}) = 1
           /\ a[n - 1] = Terminator
           /\ \A i \in 1..(n - 2) : a[i] # Terminator
           /\ a[n] = (IF r.arguments = UNDEF THEN <<>> ELSE r.arguments)
           /\ argJob.run[1].prompt # UNDEF => \A i \in 1..n : a[i] # argJob.run[1].prompt
           /\ (r.command = StrEcho /\ r.arguments = StrHi /\ OnlyCommand(r)) =>
                 a = <<TokRun, FlagCommand, StrEcho, Terminator, StrHi>>

\* C18 happens: the vector of command "echo" with arguments "hi" was built
C18_Witness ==
    /\ CommandModeBuilt
    /\ BuiltRun.command = StrEcho /\ BuiltRun.arguments = StrHi /\ OnlyCommand(BuiltRun)
    /\ argJob.run[1].prompt = StrBlank


\* the legacy fields of the job being built
LegacyPrompt == IF argJob.prompt = UNDEF THEN <<>> ELSE Trim(argJob.prompt)
LegacyUrl == IF argJob.attachUrl = UNDEF THEN <<>> ELSE Trim(argJob.attachUrl)

\* a record the store hands out: sanitizeJob accepted it when it was loaded
Loadable(job) == ~sanitizeJob(job).threw

\* the vector of a job without its legacy fields
WithoutLegacy == buildOpencodeArgs([argJob EXCEPT !.prompt = UNDEF, !.attachUrl = UNDEF])

\* C22: a job with a run spec is built from that run spec whatever its legacy
\* fields hold; a job without one is built from its legacy prompt and attach
\* URL; a job without a run spec whose legacy prompt is absent or blank fails;
\* every loaded record with a non-blank legacy prompt and no run spec is
\* built into an invocation.
C22_EffectiveRun ==
    argsOut.ran =>
        /\ argJob.run # <<>> =>
              /\ argsOut.threw = WithoutLegacy.threw
              /\ argsOut.args = WithoutLegacy.args
              /\ ~argsOut.threw =>
                    \A i \in 1..Len(argsOut.args) : argsOut.args[i] \notin {StrOld, StrOldUrl}
        /\ (argJob.run = <<>> /\ LegacyPrompt = <<>>) => argsOut.threw
        /\ (argJob.run = <<>> /\ LegacyPrompt # <<>> /\ Loadable(argJob)) =>
              /\ ~argsOut.threw
              /\ argsOut.args =
                    <<TokRun>> \o (IF LegacyUrl = <<>> THEN <<>> ELSE <<FlagAttach, LegacyUrl>>)
                    \o <<Terminator, LegacyPrompt>>
        /\ (argJob.run = <<>> /\ ~argsOut.threw) => LegacyPrompt # <<>>

\* C22 happens: a legacy record with a prompt and an attach URL was built, and
\* so was a record whose run spec sits next to legacy fields
C22_Witness ==
    /\ argsOut.ran /\ ~argsOut.threw
    /\ argJob.run = <<>> /\ argJob.prompt = StrHiPadded /\ argJob.attachUrl = StrUrl

C22_WitnessMixed ==
    /\ argsOut.ran /\ ~argsOut.threw
    /\ argJob.run # <<>> /\ argJob.prompt = StrOld /\ argJob.attachUrl = StrOldUrl

----------------------------------------------------------------------------
(* Slug derivation: inputs, the specification that exercises it, properties *)

StrStandingDesk == <<"S", "t", "a", "n", "d", "i", "n", "g", " ", "D", "e", "s", "k">>
StrStandingDeskSlug == <<"s", "t", "a", "n", "d", "i", "n", "g", "-", "d", "e", "s", "k">>

SlugNames ==
    {StrStandingDesk,
     <<"A", " ", "b">>,
     <<"a", "-", "-", "b">>,
     <<" ", "x", " ">>,
     <<"!">>,
     <<>>,
     <<"A", "1", "_", "B">>,
     <<"-", "-", "a">>,
     <<"a", ".", "b", ".", "c">>,
     <<"Z">>}

SlugSources ==
    {UNDEF,
     <<>>,
     <<"x">>,
     <<"X">>,
     <<"m", "y", " ", "s", "r", "c">>,
     <<"a", "-">>,
     <<"-">>}

SlugInit ==
    /\ slugName \in SlugNames
    /\ slugSource \in SlugSources
    /\ slugOut = NotDerived
    /\ CronIdle
    /\ ArgsIdle
    /\ AdapterIdle
    /\ NormIdle
    /\ SysIdle

\* the first statement of schedule_job: the slug of the job to be
DeriveSlug ==
    /\ ~slugOut.ran
    /\ slugOut' = [ran |-> TRUE, slug |-> JobSlug(slugName, slugSource)]
    /\ UNCHANGED <<slugName, slugSource, cronVars, argVars, adapterVars, normVars, sysVars>>

SlugNext == DeriveSlug

SpecSlug == SlugInit /\ [][SlugNext]_vars

\* lowercase letters, digits and single hyphens, no hyphen at either end
WellFormedSlug(s) ==
    /\ \A i \in 1..Len(s) : IsLower(s[i]) \/ IsDigit(s[i]) \/ s[i] = "-"
    /\ \A i \in 1..(Len(s) - 1) : ~(s[i] = "-" /\ s[i + 1] = "-")
    /\ s # <<>> => s[1] # "-" /\ s[Len(s)] # "-"

\* C17: the slug schedule_job derives from the name and the optional source
\* consists only of lowercase letters, digits and single hyphens and has no
\* leading or trailing hyphen, for every name and every source; the name
\* "Standing Desk" without source gives "standing-desk".
C17_SlugWellFormed ==
    slugOut.ran =>
        /\ WellFormedSlug(slugOut.slug)
        /\ (slugName = StrStandingDesk /\ slugSource = UNDEF) =>
              slugOut.slug = StrStandingDeskSlug

\* the part of C17 that holds: the slug of a job scheduled without a source
C17_WithoutSource ==
    (slugOut.ran /\ slugSource \in {UNDEF, <<>>}) =>
        /\ WellFormedSlug(slugOut.slug)
        /\ slugName = StrStandingDesk => slugOut.slug = StrStandingDeskSlug

----------------------------------------------------------------------------
(* Tool operations and the run supervisor *)

MaxClock == 2
MaxRuns == 2

StrExitCode == <<"E", "x", "i", "t", " ", "c", "o", "d", "e", " ">>
StrUnknown == <<"u", "n", "k", "n", "o", "w", "n">>
StrSpawnError == <<"s", "p", "a", "w", "n", " ", "E", "N", "O", "E", "N", "T">>
StrCwd == <<"/", "c", "w", "d">>

\* a message that never names the code
ExitCodeMessageUnknown(code) == StrExitCode \o StrUnknown

\* `Exit code ${exitCode ?? "unknown"}`
ExitCodeMessage(code) ==
    StrExitCode \o (IF code = <<>> THEN StrUnknown ELSE NumToString(code[1]))

\* the arguments of a tool call; a field the caller leaves out is undefined
NoArgs ==
    [name |-> UNDEF, source |-> UNDEF, schedule |-> UNDEF, prompt |-> UNDEF,
     command |-> UNDEF, arguments |-> UNDEF, agent |-> UNDEF, runFormat |-> UNDEF,
     attachUrl |-> UNDEF, port |-> <<>>, workdir |-> UNDEF]

\* what a call or callback reports: its result ("ok", "error", or "throw"
\* when an exception leaves the handler), why, the record files and unit
\* files it wrote and the service-manager commands it ran, whether the
\* rollback of update_job ran and how its reinstall ended, for a child
\* callback the exit code and the phase the child was in, and for a manual
\* run the status the record held before and the state its log stream is
\* left in ("open" or "ended"), how often the stream has been ended so far,
\* and whether the handler wrote to it after it had been ended
Report(op, a, slug, result, reason, recWrites, unitWrites, cmds, rollback, code) ==
    [op |-> op, args |-> a, slug |-> slug, result |-> result, reason |-> reason,
     recWrites |-> recWrites, unitWrites |-> unitWrites, cmds |-> cmds,
     rollback |-> rollback, code |-> code, phase |-> "none", prior |-> "none",
     reinstall |-> "none", stream |-> "none", ends |-> 0, late |-> FALSE]

\* a call that returns errorResult before touching anything
Rejected(op, a, slug, reason) ==
    /\ last' = Report(op, a, slug, "error", reason, 0, 0, 0, FALSE, <<>>)
    /\ UNCHANGED <<platform, store, units, children, spawned, logs, now>>

\* value ?? fallback for a tool argument
Given(value, fallback) == IF value # UNDEF THEN value ELSE fallback

\* the run spec schedule_job assembles from its arguments
ScheduleRun(a) ==
    [EmptyRun EXCEPT !.prompt = a.prompt, !.command = a.command,
                     !.arguments = a.arguments, !.agent = a.agent,
                     !.runFormat = parseRunFormatInput(a.runFormat).value,
                     !.attachUrl = a.attachUrl, !.port = a.port]

\* the checks of schedule_job without the one for an existing record
ScheduleRejectionOverwriting(st, a) ==
    IF parseRunFormatInput(a.runFormat).threw THEN "invalid run format"
    ELSE IF ~validateRunSpec(normalizeRunSpec(ScheduleRun(a))) THEN "invalid run spec"
    ELSE IF normalizeAttachUrl(a.attachUrl).threw THEN "invalid attach url"
    ELSE IF ~validateCronExpression(a.schedule) THEN "invalid cron"
    ELSE ""

\* why schedule_job returns early, "" when it goes on to save and install
ScheduleRejection(st, a) ==
    IF loadJob(st, JobSlug(a.name, a.source)) # <<>> THEN "exists"
    ELSE IF parseRunFormatInput(a.runFormat).threw THEN "invalid run format"
    ELSE IF ~validateRunSpec(normalizeRunSpec(ScheduleRun(a))) THEN "invalid run spec"
    ELSE IF normalizeAttachUrl(a.attachUrl).threw THEN "invalid attach url"
    ELSE IF ~validateCronExpression(a.schedule) THEN "invalid cron"
    ELSE ""

\* the record schedule_job builds
NewJob(a) ==
    [slug |-> JobSlug(a.name, a.source), name |-> a.name, schedule |-> a.schedule,
     run |-> <<normalizeRunSpec(ScheduleRun(a))>>, prompt |-> a.prompt,
     source |-> a.source,
     workdir |-> IF a.workdir # UNDEF /\ a.workdir # <<>> THEN a.workdir ELSE StrCwd,
     attachUrl |-> normalizeAttachUrl(a.attachUrl).url,
     createdAt |-> now, updatedAt |-> <<>>,
     lastRunAt |-> <<>>, lastRunExitCode |-> <<>>, lastRunError |-> UNDEF,
     lastRunSource |-> "undefined", lastRunStatus |-> "undefined"]

\* a catch block that leaves the record where it is
schedule_catch_keeping(st, slug) == st

\* the catch block of schedule_job: the store it leaves
schedule_catch(st, slug) == deleteJobFile(st, slug)

\* how the try block of schedule_job ends, given what saveJob and installJob did
schedule_done(a, slug, saved, inst) ==
    IF saved.threw THEN
        /\ store' = schedule_catch(store, slug)
        /\ units' = units
        /\ last' = Report("schedule_job", a, slug, "error", "save failed", 0, 0, 0, FALSE, <<>>)
    ELSE IF inst.threw THEN
        /\ store' = schedule_catch(saved.st, slug)
        /\ units' = [units EXCEPT ![slug] = inst.unit]
        /\ last' = Report("schedule_job", a, slug, "error", "install failed",
                          1, inst.writes, inst.cmds, FALSE, <<>>)
    ELSE
        /\ store' = saved.st
        /\ units' = [units EXCEPT ![slug] = inst.unit]
        /\ last' = Report("schedule_job", a, slug, "ok", "scheduled",
                          1, inst.writes, inst.cmds, FALSE, <<>>)

\* the try block of schedule_job and its catch
schedule_try(a, job, ioFails, failAt) ==
    schedule_done(a, job.slug, saveJob(store, job, ioFails),
                  installJob(platform, units[job.slug], job, failAt))

\* schedule_job after its checks; the write of the record or a step of the
\* install may fail
schedule_checked(a, job, rejection) ==
    IF rejection # "" THEN Rejected("schedule_job", a, job.slug, rejection)
    ELSE /\ now < MaxClock
         /\ now' = now + 1
         /\ UNCHANGED <<platform, children, spawned, logs>>
         /\ \E ioFails \in BOOLEAN :
              \E failAt \in IF ioFails THEN {0} ELSE InstallFailures(platform) :
                 schedule_try(a, job, ioFails, failAt)

\* schedule_job.execute
schedule_job(a) == schedule_checked(a, NewJob(a), ScheduleRejection(store, a))

\* the run spec a call merges over the job's current one (update_job's
\* nextRunCandidate, run_job's overrideCandidate), normalized
MergedRun(a, job) ==
    LET got == getJobRun(job)
        currentRun == IF got.threw THEN EmptyRun ELSE normalizeRunSpec(got.run)
    IN normalizeRunSpec(
         [currentRun EXCEPT
            !.prompt = Given(a.prompt, currentRun.prompt),
            !.command = Given(a.command, currentRun.command),
            !.arguments = Given(a.arguments, currentRun.arguments),
            !.agent = Given(a.agent, currentRun.agent),
            !.runFormat = IF a.runFormat # UNDEF THEN parseRunFormatInput(a.runFormat).value
                          ELSE currentRun.runFormat,
            !.attachUrl = Given(a.attachUrl, currentRun.attachUrl),
            !.port = IF a.port # <<>> THEN a.port ELSE currentRun.port])

\* parseRunFormatInput throws while the candidate is being assembled
MergeThrows(a) == a.runFormat # UNDEF /\ parseRunFormatInput(a.runFormat).threw

\* Object.keys(updates) when update_job reaches its check for an empty
\* update: updates.run has been assigned by then, whatever the arguments
UpdateKeys(a) ==
    {"run"}
    \cup (IF a.schedule # UNDEF THEN {"schedule"} ELSE {})
    \cup (IF a.prompt # UNDEF THEN {"prompt"} ELSE {})
    \cup (IF a.workdir # UNDEF THEN {"workdir"} ELSE {})
    \cup (IF a.attachUrl # UNDEF THEN {"attachUrl"} ELSE {})

\* why update_job returns early, "" when it goes on to save and install
UpdateRejection(a) ==
    IF a.schedule # UNDEF /\ Trim(a.schedule) = <<>> THEN "empty schedule"
    ELSE IF a.schedule # UNDEF /\ ~validateCronExpression(a.schedule) THEN "invalid cron"
    ELSE IF a.prompt # UNDEF /\ Trim(a.prompt) = <<>> THEN "empty prompt"
    ELSE IF a.workdir # UNDEF /\ Trim(a.workdir) = <<>> THEN "empty workdir"
    ELSE IF a.attachUrl # UNDEF /\ normalizeAttachUrl(a.attachUrl).threw THEN "invalid attach url"
    ELSE IF UpdateKeys(a) = {} THEN "no updates"
    ELSE ""

\* an update that starts the run bookkeeping of the record afresh
UpdatedJobResetting(a, job) ==
    [job EXCEPT
       !.run = <<MergedRun(a, job)>>,
       !.schedule = Given(a.schedule, job.schedule),
       !.prompt = Given(a.prompt, job.prompt),
       !.workdir = Given(a.workdir, job.workdir),
       !.attachUrl = IF a.attachUrl # UNDEF THEN normalizeAttachUrl(a.attachUrl).url
                     ELSE job.attachUrl,
       !.updatedAt = <<now>>,
       !.lastRunStatus = "undefined", !.lastRunError = UNDEF, !.lastRunExitCode = <<>>]

\* the record update_job tries to save
UpdatedJob(a, job) ==
    [job EXCEPT
       !.run = <<MergedRun(a, job)>>,
       !.schedule = Given(a.schedule, job.schedule),
       !.prompt = Given(a.prompt, job.prompt),
       !.workdir = Given(a.workdir, job.workdir),
       !.attachUrl = IF a.attachUrl # UNDEF THEN normalizeAttachUrl(a.attachUrl).url
                     ELSE job.attachUrl,
       !.updatedAt = <<now>>]

\* how the catch block of update_job ends, given what saveJob and installJob
\* did: a failure of the reinstall is swallowed
update_caught(st, u, save2, inst2) ==
    IF save2.threw
    THEN [threw |-> TRUE, st |-> st, unit |-> u, recWrites |-> 0, writes |-> 0,
          cmds |-> 0, reinstall |-> "none"]
    ELSE [threw |-> FALSE, st |-> save2.st, unit |-> inst2.unit, recWrites |-> 1,
          writes |-> inst2.writes, cmds |-> inst2.cmds,
          reinstall |-> IF inst2.threw THEN "failed" ELSE "ok"]

\* a catch block that reinstalls the prior unit without saving the prior record
update_catch_unsaved(job, st, u, io2, fail2) ==
    update_caught(st, u, [threw |-> FALSE, st |-> st, wrote |-> FALSE],
                  installJob(platform, u, job, fail2))

\* a catch block that saves the prior record without reinstalling the prior unit
update_catch_uninstalled(job, st, u, io2, fail2) ==
    update_caught(st, u, saveJob(st, job, io2), Outcome(u, FALSE, 0, 0, <<>>))

\* the catch block of update_job, entered with store st and unit u: the prior
\* record is saved again, then the prior unit reinstalled
update_catch(job, st, u, io2, fail2) ==
    update_caught(st, u, saveJob(st, job, io2), installJob(platform, u, job, fail2))

\* update_job returns from its catch block
update_failed(a, slug, save1, inst1, why, back) ==
    /\ store' = back.st
    /\ units' = [units EXCEPT ![slug] = back.unit]
    /\ last' = [Report("update_job", a, slug, IF back.threw THEN "throw" ELSE "error", why,
                       (IF save1.wrote THEN 1 ELSE 0) + back.recWrites,
                       (IF save1.threw THEN 0 ELSE inst1.writes) + back.writes,
                       (IF save1.threw THEN 0 ELSE inst1.cmds) + back.cmds, TRUE, <<>>)
                  EXCEPT !.reinstall = back.reinstall]

\* how the try block of update_job ends, given what saveJob and installJob did
update_done(a, job, save1, inst1, why) ==
    IF ~save1.threw /\ ~inst1.threw THEN
        /\ store' = save1.st
        /\ units' = [units EXCEPT ![job.slug] = inst1.unit]
        /\ last' = Report("update_job", a, job.slug, "ok", "updated",
                          1, inst1.writes, inst1.cmds, FALSE, <<>>)
    ELSE \E io2 \in BOOLEAN :
           \E fail2 \in IF io2 THEN {0} ELSE InstallFailures(platform) :
              update_failed(a, job.slug, save1, inst1, why,
                            update_catch(job, IF save1.threw THEN store ELSE save1.st,
                                         IF save1.threw THEN units[job.slug] ELSE inst1.unit,
                                         io2, fail2))

\* the try block of update_job and its catch
update_try(a, job, updatedJob, insane, io1, fail1) ==
    update_done(a, job, saveJob(store, updatedJob, io1),
                installJob(platform, units[job.slug], updatedJob, fail1),
                IF insane THEN "invalid run spec"
                ELSE IF io1 THEN "save failed" ELSE "install failed")

\* update_job after its checks
update_checked(a, job, rejection, updatedJob, insane) ==
    IF MergeThrows(a) THEN
        /\ last' = Report("update_job", a, job.slug, "throw", "invalid run format",
                          0, 0, 0, FALSE, <<>>)
        /\ UNCHANGED <<platform, store, units, children, spawned, logs, now>>
    ELSE IF rejection # "" THEN Rejected("update_job", a, job.slug, rejection)
    ELSE /\ now < MaxClock
         /\ now' = now + 1
         /\ UNCHANGED <<platform, children, spawned, logs>>
         /\ \E io1 \in IF insane THEN {FALSE} ELSE BOOLEAN :
              \E fail1 \in IF insane \/ io1 THEN {0} ELSE InstallFailures(platform) :
                 update_try(a, job, updatedJob, insane, io1, fail1)

\* update_job once findJobByName has returned job
update_found(a, job) ==
    update_checked(a, job, UpdateRejection(a), UpdatedJob(a, job),
                   sanitizeJob(UpdatedJob(a, job)).threw)

\* update_job.execute
update_job(a) ==
    LET found == findJobByName(store, a.name)
    IN IF found = {} THEN Rejected("update_job", a, UNDEF, "not found")
       ELSE \E job \in found : update_found(a, job)

\* delete_job.execute
delete_job(a, failAt) ==
    LET found == findJobByName(store, a.name)
    IN IF found = {} THEN Rejected("delete_job", a, UNDEF, "not found")
       ELSE \E job \in found :
              LET un == uninstallJob(platform, units[job.slug], failAt)
              IN /\ units' = [units EXCEPT ![job.slug] = un.unit]
                 /\ store' = deleteJobFile(store, job.slug)
                 /\ last' = Report("delete_job", a, job.slug, "ok", "deleted",
                                   0, 0, un.cmds, FALSE, <<>>)
                 /\ UNCHANGED <<platform, children, spawned, logs, now>>

\* an updateJobRecord that writes the record anew when it is gone, from the
\* job the handler captured when the run began
updateJobRecordUpserting(st, slug, status, exitCode, error, startedAt, ioFails) ==
    LET loaded == loadJob(st, slug)
        captured == [slug |-> slug, name |-> slug, schedule |-> <<"*", " ", "*", " ", "*", " ", "*", " ", "*">>,
                     run |-> <<>>, prompt |-> <<"h", "i">>, source |-> UNDEF,
                     workdir |-> <<"/">>, attachUrl |-> UNDEF, createdAt |-> 0,
                     updatedAt |-> <<>>, lastRunAt |-> <<>>, lastRunExitCode |-> <<>>,
                     lastRunError |-> UNDEF, lastRunSource |-> "undefined",
                     lastRunStatus |-> "undefined"]
        base == IF loaded = <<>> THEN captured ELSE loaded[1]
    IN saveJob(st, [base EXCEPT
                      !.lastRunStatus = status, !.lastRunExitCode = exitCode,
                      !.lastRunError = error,
                      !.lastRunAt = IF startedAt # <<>> THEN startedAt ELSE @,
                      !.lastRunSource = IF startedAt # <<>> THEN "manual" ELSE @,
                      !.updatedAt = <<now>>], ioFails)

\* updateJobRecord: [threw, st, wrote]; nothing happens when the record is gone
updateJobRecord(st, slug, status, exitCode, error, startedAt, ioFails) ==
    LET loaded == loadJob(st, slug)
        updated == [loaded[1] EXCEPT
                      !.lastRunStatus = status, !.lastRunExitCode = exitCode,
                      !.lastRunError = error,
                      !.lastRunAt = IF startedAt # <<>> THEN startedAt ELSE @,
                      !.lastRunSource = IF startedAt # <<>> THEN "manual" ELSE @,
                      !.updatedAt = <<now>>]
    IN IF loaded = <<>> THEN [threw |-> FALSE, st |-> st, wrote |-> FALSE]
       ELSE saveJob(st, updated, ioFails)

\* the status the record of slug holds, "none" when there is no record
StatusOf(st, slug) ==
    IF loadJob(st, slug) = <<>> THEN "none" ELSE loadJob(st, slug)[1].lastRunStatus

\* the sections runJobNow and its handlers write to the log
LogStart == "manual run"
LogError == "run error"
LogComplete == "run complete"

\* logStream.write(section) on the log of slug
Logged(lg, slug, sections) == [lg EXCEPT ![slug] = @ \o sections]

\* a spawn catch that logs the error and throws it on without touching the
\* record
run_spawn_failed_unrecorded(a, slug, failed) ==
    /\ store' = store
    /\ logs' = Logged(logs, slug, <<LogStart, LogError>>)
    /\ UNCHANGED <<children, spawned>>
    /\ last' = [Report("run_job", a, slug, "error", "spawn failed",
                        IF failed.wrote THEN 1 ELSE 0, 0, 0, FALSE, <<>>)
                    EXCEPT !.prior = StatusOf(store, slug), !.stream = "ended"]

\* runJobNow when spawn throws: the error is logged, the stream ended, the
\* record marked failed, and the error thrown on to run_job
run_spawn_failed(a, slug, failed) ==
    /\ store' = failed.st
    /\ logs' = Logged(logs, slug, <<LogStart, LogError>>)
    /\ UNCHANGED <<children, spawned>>
    /\ last' = [Report("run_job", a, slug, "error", "spawn failed",
                        IF failed.wrote THEN 1 ELSE 0, 0, 0, FALSE, <<>>)
                    EXCEPT !.prior = StatusOf(store, slug), !.stream = "ended"]

\* a runJobNow that marks the record with the outcome it expects of the
\* child before the child has run
run_spawned_optimistic(a, slug, running) ==
    /\ store' = updateJobRecord(store, slug, "success", <<0>>, UNDEF, <<now>>, FALSE).st
    /\ logs' = Logged(logs, slug, <<LogStart>>)
    /\ spawned' = spawned + 1
    /\ children' = children \cup {[id |-> spawned + 1, slug |-> slug, phase |-> "running",
                                   stream |-> "open", ends |-> 0]}
    /\ last' = [Report("run_job", a, slug, "ok", "triggered", 1, 0, 0, FALSE, <<>>)
                    EXCEPT !.prior = StatusOf(store, slug), !.stream = "open"]

\* a runJobNow that spawns the child and leaves the record as it was
run_spawned_unrecorded(a, slug, running) ==
    /\ store' = store
    /\ logs' = Logged(logs, slug, <<LogStart>>)
    /\ spawned' = spawned + 1
    /\ children' = children \cup {[id |-> spawned + 1, slug |-> slug, phase |-> "running",
                                   stream |-> "open", ends |-> 0]}
    /\ last' = [Report("run_job", a, slug, "ok", "triggered", 0, 0, 0, FALSE, <<>>)
                    EXCEPT !.prior = StatusOf(store, slug), !.stream = "open"]

\* a runJobNow that saves the job it was handed, overrides included, when it
\* marks the record running
run_spawned_persisting(a, slug, running) ==
    /\ store' = IF running.wrote
                THEN [running.st EXCEPT ![slug] =
                        <<[@[1] EXCEPT !.run = <<MergedRun(a, loadJob(store, slug)[1])>>]>>]
                ELSE running.st
    /\ logs' = Logged(logs, slug, <<LogStart>>)
    /\ spawned' = spawned + 1
    /\ children' = children \cup {[id |-> spawned + 1, slug |-> slug,
                                   phase |-> IF running.threw THEN "unwatched" ELSE "running",
                                   stream |-> "open", ends |-> 0]}
    /\ last' = [Report("run_job", a, slug, IF running.threw THEN "error" ELSE "ok",
                        IF running.threw THEN "save failed" ELSE "triggered",
                        IF running.wrote THEN 1 ELSE 0, 0, 0, FALSE, <<>>)
                    EXCEPT !.prior = StatusOf(store, slug), !.stream = "open"]

\* runJobNow after spawn returned a child: the record is marked running; when
\* that write throws, runJobNow throws before it registers its handlers, and
\* nothing is left to end the stream
run_spawned(a, slug, running) ==
    /\ store' = running.st
    /\ logs' = Logged(logs, slug, <<LogStart>>)
    /\ spawned' = spawned + 1
    /\ children' = children \cup {[id |-> spawned + 1, slug |-> slug,
                                   phase |-> IF running.threw THEN "unwatched" ELSE "running",
                                   stream |-> "open", ends |-> 0]}
    /\ last' = [Report("run_job", a, slug, IF running.threw THEN "error" ELSE "ok",
                        IF running.threw THEN "save failed" ELSE "triggered",
                        IF running.wrote THEN 1 ELSE 0, 0, 0, FALSE, <<>>)
                    EXCEPT !.prior = StatusOf(store, slug), !.stream = "open"]

\* run_job and the synchronous part of runJobNow, once the job is found
run_found(a, job, spawnFails, ioFails) ==
    IF MergeThrows(a) THEN
        /\ last' = Report("run_job", a, job.slug, "throw", "invalid run format", 0, 0, 0, FALSE, <<>>)
        /\ UNCHANGED <<platform, store, units, children, spawned, logs, now>>
    ELSE IF ~validateRunSpec(MergedRun(a, job))
         THEN Rejected("run_job", a, job.slug, "invalid run override")
    ELSE /\ now < MaxClock
         /\ spawned < MaxRuns
         /\ now' = now + 1
         /\ UNCHANGED <<platform, units>>
         /\ IF spawnFails
            THEN run_spawn_failed(a, job.slug,
                    updateJobRecord(store, job.slug, "failed", <<>>, StrSpawnError, <<>>, ioFails))
            ELSE run_spawned(a, job.slug,
                    updateJobRecord(store, job.slug, "running", <<>>, UNDEF, <<now>>, ioFails))

\* run_job.execute
run_job(a, spawnFails, ioFails) ==
    LET found == findJobByName(store, a.name)
    IN IF found = {} THEN Rejected("run_job", a, UNDEF, "not found")
       ELSE \E job \in found : run_found(a, job, spawnFails, ioFails)

\* logStream.write(section) by a handler of child c, or by one of its pipes:
\* what is written to a stream that has been ended is not appended
Written(lg, c, sections) == IF c.stream = "open" THEN Logged(lg, c.slug, sections) ELSE lg

\* the callbacks of the runs started within MaxClock may still fire one tick
\* after the last tool call
CallbackClock == MaxClock + 1

\* child.on("error"): the spawn failed after spawn() had returned; the event
\* is emitted before the child's output streams are flushed and ended
child_error(c) ==
    LET upd == updateJobRecord(store, c.slug, "failed", <<>>, StrSpawnError, <<>>, FALSE)
    IN /\ c.phase = "running"
       /\ c.ends = 0
       /\ now < CallbackClock
       /\ now' = now + 1
       /\ store' = upd.st
       /\ children' = (children \ {c})
                          \cup {[c EXCEPT !.phase = "errored", !.stream = "ended", !.ends = @ + 1]}
       /\ logs' = Written(logs, c, <<LogError>>)
       /\ last' = [Report("child_error", NoArgs, c.slug, "ok", "run error",
                          IF upd.wrote THEN 1 ELSE 0, 0, 0, FALSE, <<>>)
                      EXCEPT !.phase = c.phase, !.prior = StatusOf(store, c.slug),
                             !.stream = "ended", !.ends = c.ends + 1,
                             !.late = (c.stream = "ended")]
       /\ UNCHANGED <<platform, units, spawned>>

\* the codes a child can close with: after an error event the negative errno
\* of the failed spawn, else an exit code or none (killed by a signal)
CloseCodes(c) ==
    IF c.phase = "errored" THEN {<<-2>>}
    ELSE IF c.phase = "running" THEN {<<0>>, <<1>>, <<>>}
    ELSE {}

\* a close handler that takes every code other than a non-zero number for
\* success: a child killed by a signal closes with no code
child_close_falsy(c, code) ==
    LET ok == code \in {<<0>>, <<>>}
        upd == updateJobRecord(store, c.slug, IF ok THEN "success" ELSE "failed",
                               code, IF ok THEN UNDEF ELSE ExitCodeMessage(code),
                               <<>>, FALSE)
    IN /\ code \in CloseCodes(c)
       /\ now < CallbackClock
       /\ now' = now + 1
       /\ store' = upd.st
       /\ children' = children \ {c}
       /\ logs' = Written(logs, c, <<LogComplete>>)
       /\ last' = [Report("child_close", NoArgs, c.slug, "ok", "run complete",
                          IF upd.wrote THEN 1 ELSE 0, 0, 0, FALSE, code)
                      EXCEPT !.phase = c.phase, !.prior = StatusOf(store, c.slug),
                             !.stream = "ended", !.ends = c.ends + 1,
                             !.late = (c.stream = "ended")]
       /\ UNCHANGED <<platform, units, spawned>>

\* child.on("close")
child_close(c, code) ==
    LET upd == updateJobRecord(store, c.slug, IF code = <<0>> THEN "success" ELSE "failed",
                               code, IF code = <<0>> THEN UNDEF ELSE ExitCodeMessage(code),
                               <<>>, FALSE)
    IN /\ code \in CloseCodes(c)
       /\ now < CallbackClock
       /\ now' = now + 1
       /\ store' = upd.st
       /\ children' = children \ {c}
       /\ logs' = Written(logs, c, <<LogComplete>>)
       /\ last' = [Report("child_close", NoArgs, c.slug, "ok", "run complete",
                          IF upd.wrote THEN 1 ELSE 0, 0, 0, FALSE, code)
                      EXCEPT !.phase = c.phase, !.prior = StatusOf(store, c.slug),
                             !.stream = "ended", !.ends = c.ends + 1,
                             !.late = (c.stream = "ended")]
       /\ UNCHANGED <<platform, units, spawned>>

\* the sections a log may grow to while the child writes output
MaxLog == 5
LogOutput == "output"

\* stdout and stderr are both piped into the log stream
Pipes == 2

\* child.stdout.pipe(logStream), child.stderr.pipe(logStream): a chunk of the
\* child's output is written to the log stream
child_output(c) ==
    /\ c.phase = "running"
    /\ c.stream = "open"
    /\ Len(logs[c.slug]) < MaxLog
    /\ logs' = Written(logs, c, <<LogOutput>>)
    /\ last' = [Report("child_output", NoArgs, c.slug, "ok", "output", 0, 0, 0, FALSE, <<>>)
                   EXCEPT !.phase = c.phase, !.prior = StatusOf(store, c.slug),
                          !.stream = c.stream]
    /\ UNCHANGED <<platform, store, units, children, spawned, now>>

\* the child's stdout or stderr ends: pipe() was called without {end: false},
\* so each of the two pipes ends the log stream when its source ends
pipe_end(c) ==
    /\ c.phase = "running"
    /\ c.ends < Pipes
    /\ children' = (children \ {c}) \cup {[c EXCEPT !.stream = "ended", !.ends = @ + 1]}
    /\ last' = [Report("pipe_end", NoArgs, c.slug, "ok", "output ended", 0, 0, 0, FALSE, <<>>)
                   EXCEPT !.phase = c.phase, !.prior = StatusOf(store, c.slug),
                          !.stream = "ended", !.ends = c.ends + 1]
    /\ UNCHANGED <<platform, store, units, spawned, logs, now>>

----------------------------------------------------------------------------
(* Inputs and the specification of the scheduler *)

NameA == <<"A", " ", "b">>
NameMissing == <<"z">>
NameFuzzy == <<"B">>
SlugA == <<"a", "-", "b">>

CronDaily == <<"0", " ", "9", " ", "*", " ", "*", " ", "*">>
CronBadCount == <<"*", " ", "*", " ", "*">>
CronBadRange == <<"7", "0", " ", "*", " ", "*", " ", "*", " ", "*">>
CronBadStep == <<"*", "/", "0", " ", "*", " ", "*", " ", "*", " ", "*">>
StrYo == <<"y", "o">>
StrXml == <<"x", "m", "l">>

\* ports are held in halves: 0 and -1
PortZero == <<0>>
PortMinusOne == <<-2>>

SlugSpace == {JobSlug(NameA, UNDEF)}

ScheduleBase == [NoArgs EXCEPT !.name = NameA, !.schedule = CronDaily, !.prompt = StrHiPadded]

ScheduleInputs ==
    {ScheduleBase,
     [ScheduleBase EXCEPT !.command = StrEcho],
     [ScheduleBase EXCEPT !.prompt = StrBlank],
     [ScheduleBase EXCEPT !.attachUrl = StrBadUrl],
     [ScheduleBase EXCEPT !.runFormat = StrXml],
     [ScheduleBase EXCEPT !.port = PortZero],
     [ScheduleBase EXCEPT !.schedule = CronBadCount],
     [ScheduleBase EXCEPT !.schedule = CronBadRange],
     [ScheduleBase EXCEPT !.schedule = CronBadStep]}

UpdateShapes ==
    {NoArgs,
     [NoArgs EXCEPT !.schedule = ExprUnion],
     [NoArgs EXCEPT !.schedule = CronBadCount],
     [NoArgs EXCEPT !.schedule = CronBadRange],
     [NoArgs EXCEPT !.schedule = CronBadStep],
     [NoArgs EXCEPT !.schedule = StrBlank],
     [NoArgs EXCEPT !.schedule = CronBadCount, !.runFormat = StrXml],
     [NoArgs EXCEPT !.prompt = StrBlank],
     [NoArgs EXCEPT !.command = StrEcho],
     [NoArgs EXCEPT !.attachUrl = StrBadUrl],
     [NoArgs EXCEPT !.runFormat = StrXml],
     [NoArgs EXCEPT !.port = PortMinusOne],
     [NoArgs EXCEPT !.workdir = StrBlank]}

LookupNames == {NameA, NameFuzzy, NameMissing}

UpdateInputs ==
    {[u EXCEPT !.name = NameA] : u \in UpdateShapes}
    \cup {[NoArgs EXCEPT !.name = n, !.prompt = StrYo] : n \in LookupNames}

NameInputs == {[NoArgs EXCEPT !.name = n] : n \in LookupNames}

\* a record written by the first version of the plugin: prompt only, no run spec
LegacyJob ==
    [slug |-> SlugA, name |-> NameA, schedule |-> CronDaily, run |-> <<>>,
     prompt |-> StrHi, source |-> UNDEF, workdir |-> StrCwd, attachUrl |-> UNDEF,
     createdAt |-> 0, updatedAt |-> <<>>, lastRunAt |-> <<>>, lastRunExitCode |-> <<>>,
     lastRunError |-> UNDEF, lastRunSource |-> "undefined", lastRunStatus |-> "undefined"]

Platforms == {"darwin", "linux", "win32"}

Init ==
    /\ platform \in Platforms
    /\ \/ /\ store = [sl \in SlugSpace |-> <<>>]
          /\ units = [sl \in SlugSpace |-> NoUnit]
       \/ /\ platform # "win32"
          /\ store = [sl \in SlugSpace |-> IF sl = SlugA THEN <<LegacyJob>> ELSE <<>>]
          /\ units = [sl \in SlugSpace |->
                        IF sl = SlugA THEN installJob(platform, NoUnit, LegacyJob, 0).unit
                        ELSE NoUnit]
    /\ children = {}
    /\ spawned = 0
    /\ logs = [sl \in SlugSpace |-> <<>>]
    /\ now = 0
    /\ last = Report("none", NoArgs, UNDEF, "ok", "none", 0, 0, 0, FALSE, <<>>)
    /\ CronIdle
    /\ ArgsIdle
    /\ SlugIdle
    /\ AdapterIdle
    /\ NormIdle

ScheduleJob ==
    \E a \in ScheduleInputs : schedule_job(a) /\ UNCHANGED <<cronVars, argVars, slugVars, adapterVars, normVars>>

UpdateJob ==
    \E a \in UpdateInputs : update_job(a) /\ UNCHANGED <<cronVars, argVars, slugVars, adapterVars, normVars>>

DeleteJob ==
    \E a \in NameInputs, failAt \in UninstallFailures(platform) :
        delete_job(a, failAt) /\ UNCHANGED <<cronVars, argVars, slugVars, adapterVars, normVars>>

RunJob ==
    \E a \in NameInputs, spawnFails \in BOOLEAN, ioFails \in BOOLEAN :
        run_job(a, spawnFails, ioFails) /\ UNCHANGED <<cronVars, argVars, slugVars, adapterVars, normVars>>

ChildError ==
    \E c \in children : child_error(c) /\ UNCHANGED <<cronVars, argVars, slugVars, adapterVars, normVars>>

ChildClose ==
    \E c \in children, code \in {<<0>>, <<1>>, <<-2>>, <<>>} :
        child_close(c, code) /\ UNCHANGED <<cronVars, argVars, slugVars, adapterVars, normVars>>

Next == ScheduleJob \/ UpdateJob \/ DeleteJob \/ RunJob \/ ChildError \/ ChildClose

Spec == Init /\ [][Next]_vars

\* the manual runs of one installed job, with the output of the children
LogInit ==
    /\ platform \in {"darwin", "linux"}
    /\ store = [sl \in SlugSpace |-> IF sl = SlugA THEN <<LegacyJob>> ELSE <<>>]
    /\ units = [sl \in SlugSpace |->
                  IF sl = SlugA THEN installJob(platform, NoUnit, LegacyJob, 0).unit ELSE NoUnit]
    /\ children = {}
    /\ spawned = 0
    /\ logs = [sl \in SlugSpace |-> <<>>]
    /\ now = 0
    /\ last = Report("none", NoArgs, UNDEF, "ok", "none", 0, 0, 0, FALSE, <<>>)
    /\ CronIdle
    /\ ArgsIdle
    /\ SlugIdle
    /\ AdapterIdle
    /\ NormIdle

ChildOutput ==
    \E c \in children : child_output(c) /\ UNCHANGED <<cronVars, argVars, slugVars, adapterVars, normVars>>

PipeEnd ==
    \E c \in children : pipe_end(c) /\ UNCHANGED <<cronVars, argVars, slugVars, adapterVars, normVars>>

LogNext == RunJob \/ ChildOutput \/ PipeEnd \/ ChildError \/ ChildClose

SpecLog == LogInit /\ [][LogNext]_vars

\* a legacy record whose prompt the first version stored as it was given
PaddedJob == [LegacyJob EXCEPT !.prompt = StrHiPadded]

\* a record of this version: it holds a run spec next to the legacy prompt
StoredJob == [LegacyJob EXCEPT !.run = <<normalizeRunSpec([EmptyRun EXCEPT !.prompt = StrHi])>>]

\* run_job calls with per-call overrides of the run spec
RunOverrides ==
    {[NoArgs EXCEPT !.name = NameA],
     [NoArgs EXCEPT !.name = NameA, !.prompt = StrYo],
     [NoArgs EXCEPT !.name = NameA, !.command = StrEcho],
     [NoArgs EXCEPT !.name = NameA, !.agent = StrYo],
     [NoArgs EXCEPT !.name = NameA, !.attachUrl = StrUrl],
     [NoArgs EXCEPT !.name = NameA, !.runFormat = StrXml]}

\* one installed job, run by hand with overrides
RunInit ==
    /\ platform \in {"darwin", "linux"}
    /\ \E job \in {LegacyJob, PaddedJob, StoredJob} :
          /\ store = [sl \in SlugSpace |-> IF sl = SlugA THEN <<job>> ELSE <<>>]
          /\ units = [sl \in SlugSpace |->
                        IF sl = SlugA THEN installJob(platform, NoUnit, job, 0).unit ELSE NoUnit]
    /\ children = {}
    /\ spawned = 0
    /\ logs = [sl \in SlugSpace |-> <<>>]
    /\ now = 0
    /\ last = Report("none", NoArgs, UNDEF, "ok", "none", 0, 0, 0, FALSE, <<>>)
    /\ CronIdle
    /\ ArgsIdle
    /\ SlugIdle
    /\ AdapterIdle
    /\ NormIdle

RunJobOverriding ==
    \E a \in RunOverrides, spawnFails \in BOOLEAN, ioFails \in BOOLEAN :
        run_job(a, spawnFails, ioFails) /\ UNCHANGED <<cronVars, argVars, slugVars, adapterVars, normVars>>

RunNext == RunJobOverriding \/ ChildError \/ ChildClose

SpecRun == RunInit /\ [][RunNext]_vars

----------------------------------------------------------------------------
(* Properties of the tool operations and the run supervisor *)

\* the records of the store
Records == {store[sl][1] : sl \in {x \in DOMAIN store : store[x] # <<>>}}

\* C2: every persisted record that carries a run spec has exactly one of
\* run.prompt and run.command populated (non-empty after trimming).
C2_RunSpecXor ==
    \A job \in Records :
        job.run # <<>> => ~(HasText(job.run[1].prompt) <=> HasText(job.run[1].command))

\* C2 happens: an update has stored a run spec, and it is a prompt run
C2_Witness ==
    /\ last.op = "update_job" /\ last.result = "ok"
    /\ store[last.slug] # <<>>
    /\ store[last.slug][1].run # <<>>
    /\ HasText(store[last.slug][1].run[1].prompt)

\* the exit code as the message names it
CodeText(code) == IF code = <<>> THEN StrUnknown ELSE NumToString(code[1])

\* the record was last written by the start of a run
JustStarted(job) == job.lastRunAt # <<>> /\ job.updatedAt = job.lastRunAt

\* C3: when the child of a manual run closes and the job's record exists,
\* exit code 0 leaves lastRunStatus success, lastRunExitCode 0 and no
\* lastRunError; any other code, or none, leaves lastRunStatus failed and
\* lastRunError "Exit code <n>" or "Exit code unknown"; the status replaced
\* is running when the record was last written by the start of a run.
C3_CloseRecordsOutcome ==
    [][(last'.op = "child_close" /\ store[last'.slug] # <<>>) =>
          /\ store'[last'.slug] # <<>>
          /\ JustStarted(store[last'.slug][1]) =>
                store[last'.slug][1].lastRunStatus = "running"
          /\ IF last'.code = <<0>>
             THEN /\ store'[last'.slug][1].lastRunStatus = "success"
                  /\ store'[last'.slug][1].lastRunExitCode = <<0>>
                  /\ store'[last'.slug][1].lastRunError = UNDEF
             ELSE /\ store'[last'.slug][1].lastRunStatus = "failed"
                  /\ store'[last'.slug][1].lastRunExitCode = last'.code
                  /\ store'[last'.slug][1].lastRunError = StrExitCode \o CodeText(last'.code)
                  /\ store'[last'.slug][1].lastRunError # <<>>]_vars

\* C3 happens: a child closed with a non-zero code on a running record
C3_Witness ==
    /\ last.op = "child_close" /\ last.phase = "running" /\ last.prior = "running"
    /\ last.code = <<1>>
    /\ store[last.slug] # <<>>
    /\ store[last.slug][1].lastRunStatus = "failed"

\* the native unit of job is installed and active in unit state u
Installed(plat, u, job) ==
    IF plat = "darwin"
    THEN u.plist = <<createLaunchdPlist(job).unit>> /\ u.loaded = <<createLaunchdPlist(job).unit>>
    ELSE IF plat = "linux"
    THEN /\ u.service = <<createSystemdService(job).unit>>
         /\ u.timer = <<createSystemdTimer(job).unit>>
         /\ u.enabled /\ u.active
    ELSE FALSE

\* update_job has returned a failure for a job whose unit was installed
FailedUpdateOfInstalled ==
    /\ last'.op = "update_job" /\ last'.result = "error"
    /\ last'.slug \in DOMAIN store
    /\ store[last'.slug] # <<>>
    /\ Installed(platform, units[last'.slug], store[last'.slug][1])

C6_FailedScheduleLeavesNoRecord ==
    [][(last'.op = "schedule_job" /\ last'.reason \in {"save failed", "install failed"}) =>
          last'.result = "error" /\ store'[last'.slug] = <<>>]_vars

\* C6 happens: the record was written, then an install step failed
C6_Witness ==
    /\ last.op = "schedule_job" /\ last.reason = "install failed"
    /\ last.recWrites = 1 /\ last.unitWrites > 0
    /\ store[last.slug] = <<>>

\* the call wrote nothing and ran no service-manager command
NothingDone ==
    /\ last'.recWrites = 0 /\ last'.unitWrites = 0 /\ last'.cmds = 0
    /\ store' = store /\ units' = units

\* C7: schedule_job and update_job called with an invalid schedule return an
\* error result, write no record file and no unit file and run no
\* launchctl/systemctl command.
C7_InvalidScheduleRejected ==
    [][(/\ last'.op \in {"schedule_job", "update_job"}
        /\ last'.args.schedule # UNDEF
        /\ ~validateCronExpression(last'.args.schedule)) =>
          last'.result = "error" /\ NothingDone]_vars

\* the run spec of the call violates the prompt/command XOR or its attach
\* URL is invalid
InvalidRunSpecGiven(op, a) ==
    \/ a.attachUrl # UNDEF /\ normalizeAttachUrl(a.attachUrl).threw
    \/ /\ op = "schedule_job"
       /\ ~parseRunFormatInput(a.runFormat).threw
       /\ ~validateRunSpec(normalizeRunSpec(ScheduleRun(a)))
    \/ /\ op = "update_job"
       /\ ~MergeThrows(a)
       /\ \E job \in findJobByName(store, a.name) : ~validateRunSpec(MergedRun(a, job))

\* C8: schedule_job and update_job reject a run spec that violates the
\* prompt/command XOR or carries an invalid attach URL before writing any
\* record or unit file and before running any service-manager command.
C8_InvalidRunSpecRejected ==
    [][(last'.op \in {"schedule_job", "update_job"} /\ InvalidRunSpecGiven(last'.op, last'.args)) =>
          last'.result = "error" /\ NothingDone]_vars

\* the job delete_job, update_job or run_job finds for the name of its call
FoundJobs == findJobByName(store, last'.args.name)

\* C11: delete_job on an existing job removes the job's record and its unit
\* files (plist, or service and timer), leaves the job's log as it is, and
\* leaves the slug free for a new schedule_job.
C11_DeleteRemovesJob ==
    [][(last'.op = "delete_job" /\ FoundJobs # {}) =>
          \A job \in FoundJobs :
             /\ last'.result = "ok" /\ last'.slug = job.slug
             /\ store'[job.slug] = <<>>
             /\ units'[job.slug].plist = <<>>
             /\ units'[job.slug].service = <<>> /\ units'[job.slug].timer = <<>>
             /\ logs' = logs
             /\ loadJob(store', job.slug) = <<>>]_vars

\* C11 happens: an installed job that has a log was deleted
C11_Witness ==
    /\ last.op = "delete_job" /\ last.result = "ok" /\ last.cmds > 0
    /\ store[last.slug] = <<>>
    /\ logs[last.slug] # <<>>

\* C12: schedule_job for a name and source whose slug already has a record
\* returns an error result and leaves the record, the unit and the log of
\* the slug as they are.
C12_ExistingSlugRejected ==
    [][(/\ last'.op = "schedule_job"
        /\ loadJob(store, JobSlug(last'.args.name, last'.args.source)) # <<>>) =>
          /\ last'.result = "error"
          /\ NothingDone
          /\ logs' = logs]_vars

\* C12 happens: a job that has run was scheduled again and refused
C12_Witness ==
    /\ last.op = "schedule_job" /\ last.reason = "exists" /\ last.result = "error"
    /\ store[last.slug] # <<>>
    /\ logs[last.slug] # <<>>

\* the status of the record of slug changes to status in this step
BecomesStatus(sl, status) == StatusOf(store', sl) = status /\ StatusOf(store, sl) # status

\* C13: when the spawn of runJobNow succeeds the record holds, when
\* runJobNow returns, lastRunStatus running, lastRunAt the start time of the
\* run, lastRunSource manual and no lastRunExitCode or lastRunError; the
\* child is still running then, and success or failed is recorded only by a
\* later close or error callback (failed also by a spawn that throws).
C13_RunningBeforeReturn ==
    [][/\ (last'.op = "run_job" /\ last'.result = "ok") =>
             /\ store'[last'.slug] # <<>>
             /\ store'[last'.slug][1].lastRunStatus = "running"
             /\ store'[last'.slug][1].lastRunAt = <<now>>
             /\ store'[last'.slug][1].lastRunSource = "manual"
             /\ store'[last'.slug][1].lastRunExitCode = <<>>
             /\ store'[last'.slug][1].lastRunError = UNDEF
             /\ \E c \in children' \ children : c.slug = last'.slug /\ c.phase = "running"
       /\ \A sl \in DOMAIN store :
             /\ BecomesStatus(sl, "success") => last'.op = "child_close"
             /\ BecomesStatus(sl, "failed") =>
                   \/ last'.op \in {"child_close", "child_error"}
                   \/ last'.op = "run_job" /\ last'.reason = "spawn failed"]_vars

\* C13 happens: a run started on a record that held a failure
C13_Witness ==
    /\ last.op = "run_job" /\ last.result = "ok" /\ last.prior = "failed"
    /\ store[last.slug] # <<>>
    /\ store[last.slug][1].lastRunStatus = "running"
    /\ store[last.slug][1].lastRunError = UNDEF

\* C14: every manual run that opened the log stream has ended it when its
\* callback finishes and when runJobNow throws.
C14_StreamAlwaysEnded ==
    /\ last.op \in {"child_error", "child_close"} => last.stream = "ended"
    /\ (last.op = "run_job" /\ last.result = "error" /\ last.stream # "none") =>
          last.stream = "ended"

\* the part of C14 that holds: the exit paths other than a failed write of
\* the running status
C14_HandledPathsEnded ==
    /\ last.op \in {"child_error", "child_close"} => last.stream = "ended"
    /\ (last.op = "run_job" /\ last.reason = "spawn failed") => last.stream = "ended"

\* the port of the call is zero, negative or not an integer
MalformedPort(port) == port # <<>> /\ (port[1] <= 0 \/ port[1] % 2 # 0)

\* C19: schedule_job and update_job reject a run spec whose port is malformed
\* with a validation error, and store and install nothing.
C19_MalformedPortRejected ==
    [][(last'.op \in {"schedule_job", "update_job"} /\ MalformedPort(last'.args.port)) =>
          last'.result = "error" /\ NothingDone]_vars

\* C20: every operation ends by returning a success result or a failure
\* result; no exception leaves an operation.
C20_NoExceptionEscapes == last.result \in {"ok", "error"}

\* a manual run whose spawn threw has just returned
SpawnJustFailed == last'.op = "run_job" /\ last'.reason = "spawn failed"

\* C23: when spawn throws in runJobNow the log gets the start marker and one
\* error marker, the log stream is ended, the record, when its write goes
\* through, holds lastRunStatus failed, lastRunError the error message and no
\* exit code, no child is left, and run_job returns a failure.
C23_SpawnFailureBookkeeping ==
    [][SpawnJustFailed =>
          /\ logs'[last'.slug] = logs[last'.slug] \o <<LogStart, LogError>>
          /\ last'.stream = "ended"
          /\ last'.result = "error"
          /\ children' = children
          /\ IF last'.recWrites = 1
             THEN /\ store'[last'.slug] # <<>>
                  /\ store'[last'.slug][1].lastRunStatus = "failed"
                  /\ store'[last'.slug][1].lastRunError = StrSpawnError
                  /\ store'[last'.slug][1].lastRunExitCode = <<>>
             ELSE store' = store]_vars

\* C23 happens: a spawn threw on a record that held no failure
C23_Witness ==
    /\ last.op = "run_job" /\ last.reason = "spawn failed" /\ last.result = "error"
    /\ last.prior # "failed" /\ last.recWrites = 1
    /\ store[last.slug] # <<>>
    /\ store[last.slug][1].lastRunStatus = "failed"
    /\ store[last.slug][1].lastRunExitCode = <<>>

\* C24: once the callbacks of a run whose child emitted an error event have
\* all fired, the record holds lastRunStatus failed, lastRunError the message
\* of the error and no lastRunExitCode, and the log of the run holds one
\* error marker.
C24_ErrorEventBookkeeping ==
    (last.op = "child_close" /\ last.phase = "errored" /\ store[last.slug] # <<>>) =>
        /\ store[last.slug][1].lastRunStatus = "failed"
        /\ store[last.slug][1].lastRunError = StrSpawnError
        /\ store[last.slug][1].lastRunExitCode = <<>>
        /\ Cardinality({i \in 1..Len(logs[last.slug]) : logs[last.slug][i] = LogError}) >= 1

\* the part of C24 that holds: the bookkeeping right after the error handler
C24_AfterErrorHandler ==
    (last.op = "child_error" /\ store[last.slug] # <<>>) =>
        /\ store[last.slug][1].lastRunStatus = "failed"
        /\ store[last.slug][1].lastRunError = StrSpawnError
        /\ store[last.slug][1].lastRunExitCode = <<>>
        /\ logs[last.slug][Len(logs[last.slug])] = LogError

\* the log of the job the last step was about, before and after the step
Appended(sections) == logs'[last'.slug] = logs[last'.slug] \o sections

\* C27: what a manual run appends to the log is ordered: the start marker
\* when the run starts, output only while the run has no terminal marker, and
\* the completion or error marker, which is appended, when the run ends.
C27_LogOrdered ==
    [][/\ (last'.op = "run_job" /\ last'.result = "ok") => Appended(<<LogStart>>)
       /\ last'.op = "child_output" =>
             /\ Appended(<<LogOutput>>)
             /\ \E c \in children : c.slug = last'.slug /\ c.phase = "running"
       /\ (last'.op = "child_error" /\ last'.phase = "running") => Appended(<<LogError>>)
       /\ (last'.op = "child_close" /\ last'.phase = "running") => Appended(<<LogComplete>>)
       /\ (last'.op = "child_close" /\ last'.phase = "errored") => Appended(<<>>)]_vars

\* every stream that writes to the log of the job of the last step is open
StreamsOpen == \A c \in children : c.slug = last'.slug => c.stream = "open"

\* the part of C27 that holds: the order of what is appended, and the
\* terminal marker of a run whose output has not ended when the run ends
C27_OrderedWhileOpen ==
    [][/\ (last'.op = "run_job" /\ last'.result = "ok") => Appended(<<LogStart>>)
       /\ last'.op = "child_output" =>
             /\ Appended(<<LogOutput>>)
             /\ \E c \in children : c.slug = last'.slug /\ c.phase = "running"
       /\ (last'.op = "child_error" /\ StreamsOpen) => Appended(<<LogError>>)
       /\ (last'.op = "child_close" /\ last'.phase = "running" /\ StreamsOpen) =>
             Appended(<<LogComplete>>)
       /\ (last'.op = "child_close" /\ last'.phase = "errored") => Appended(<<>>)]_vars

\* the fields update_job has no business with
IdentityFields == {"slug", "name", "source", "createdAt"}
RunFields == {"lastRunAt", "lastRunSource", "lastRunStatus", "lastRunExitCode", "lastRunError"}

\* the record of slug sl is still there after the step, the given fields as before
Keeps(sl, fields) ==
    /\ store'[sl] # <<>>
    /\ \A f \in fields : store'[sl][1][f] = store[sl][1][f]

\* C29: update_job, whether it succeeds or fails, leaves slug, name, source
\* and createdAt and every lastRun field of the record as they were; and no
\* update, run or run callback changes the slug, name, source or createdAt
\* of a record, whose slug is the one it is stored under.
C29_UpdateFrame ==
    [][/\ last'.op = "update_job" =>
             \A sl \in DOMAIN store :
                store[sl] # <<>> => Keeps(sl, IdentityFields \cup RunFields)
       /\ last'.op \in {"update_job", "run_job", "child_error", "child_close"} =>
             \A sl \in DOMAIN store :
                store[sl] # <<>> => Keeps(sl, IdentityFields) /\ store'[sl][1].slug = sl]_vars

\* C29 happens: an update went through on a record that holds a run
C29_Witness ==
    /\ last.op = "update_job" /\ last.result = "ok" /\ last.recWrites = 1
    /\ store[last.slug] # <<>>
    /\ store[last.slug][1].lastRunStatus = "running"
    /\ store[last.slug][1].updatedAt # store[last.slug][1].lastRunAt

FinalStatuses == {"success", "failed"}

\* a child that is still running while the record of its job says that the
\* last run has ended
Outlived(c) == c.phase = "running" /\ StatusOf(store, c.slug) \in FinalStatuses
Overtaken == \E c \in children : Outlived(c)

\* C32: when two manual runs of a job overlap, lastRunStatus stays running
\* until the last of them has finished: lastRunStatus is never success or
\* failed while a manually spawned child of the job is still running.
C32_RunningUntilLastCloses ==
    spawned >= 2 => ~Overtaken

\* C32 as amended: the last write wins. The record comes to say success or
\* failed while a child of the job is still running only by the callback of
\* another child of that job or by a run_job that failed.
C32_LastWriteWins ==
    [][(Overtaken' /\ ~Overtaken) =>
          \/ last'.op \in {"child_close", "child_error"} /\ last'.recWrites = 1
          \/ last'.op = "run_job" /\ last'.result = "error"]_vars

\* C32 happens: the first of two runs has closed and the second still runs
C32_Witness ==
    /\ spawned = 2 /\ last.op = "child_close" /\ Overtaken
    /\ \E c \in children : c.id = 2 /\ Outlived(c)

\* a unit file of the slug is on disk
HasUnitFile(u) == u.plist # <<>> \/ u.service # <<>> \/ u.timer # <<>>

\* unit files without a record
Orphaned(sl) == HasUnitFile(units[sl]) /\ loadJob(store, sl) = <<>>

\* C33: after any sequence of schedule_job, update_job and delete_job calls
\* in which any service-manager step may fail, a unit file (plist, .service
\* or .timer) exists for a slug only if a record exists for that slug; a
\* failed creation leaves neither a record nor unit files.
C33_UnitOnlyWithRecord ==
    \A sl \in SlugSpace : ~Orphaned(sl)

\* the part of C33 that holds: unit files come to be without a record only
\* by a schedule_job whose install failed
C33_OrphanOnlyByFailedCreation ==
    [][\A sl \in SlugSpace :
          (Orphaned(sl)' /\ ~Orphaned(sl)) =>
              /\ last'.op = "schedule_job" /\ last'.reason = "install failed"
              /\ last'.slug = sl]_vars

\* the last-run fields of a record agree with its status
LastRunConsistent(job) ==
    /\ job.lastRunStatus = "success" =>
          job.lastRunExitCode = <<0>> /\ job.lastRunError = UNDEF
    /\ job.lastRunStatus = "running" =>
          job.lastRunExitCode = <<>> /\ job.lastRunError = UNDEF
    /\ job.lastRunStatus = "failed" =>
          job.lastRunError # UNDEF /\ job.lastRunError # <<>> /\ job.lastRunExitCode # <<0>>

\* C34: in every reachable state the last-run fields of every record are
\* mutually consistent: success implies exit code 0 and no error; running
\* implies neither an exit code nor an error; failed implies an error and an
\* exit code that is not 0.
C34_LastRunFieldsConsistent ==
    \A job \in Records : LastRunConsistent(job)

\* C34 happens: a child closed with a non-zero code and the record says so
C34_Witness ==
    /\ last.op = "child_close" /\ last.code = <<1>> /\ last.recWrites = 1
    /\ \E job \in Records : job.lastRunStatus = "failed" /\ job.lastRunExitCode = <<1>>

\* the terminal markers a log holds
Markers(lg) == Cardinality({i \in 1..Len(lg) : lg[i] \in {LogError, LogComplete}})

\* one manual run has been started on the slug of the last callback
OneRun == Cardinality({i \in 1..Len(logs[last.slug]) : logs[last.slug][i] = LogStart}) = 1

\* C35: for one manual run, in every order in which the child's error
\* event, close event and stdout/stderr end events fire, the log stream is
\* ended exactly once, exactly one terminal marker ("Run complete" or "Run
\* error") is written, and nothing is written to the stream after its end.
C35_StreamEndedOnce ==
    /\ (last.op \in {"child_error", "child_close"} /\ OneRun) => ~last.late
    /\ (last.op = "child_close" /\ OneRun) =>
          last.ends = 1 /\ Markers(logs[last.slug]) = 1

\* the part of C35 that holds: a run whose child closes before any other
\* event of it has fired has its stream ended once, with the one marker
C35_CloseAlone ==
    (last.op = "child_close" /\ OneRun /\ last.ends = 1) =>
        ~last.late /\ Markers(logs[last.slug]) = 1

Absent(sl) == loadJob(store, sl) = <<>>

\* C36: a completion or error callback of a manual run that fires after
\* delete_job removed the job does not recreate the record: from the delete
\* until a later schedule_job no record exists for the slug.
C36_DeletedStaysDeleted ==
    [][\A sl \in SlugSpace :
          (Absent(sl) /\ last'.op # "schedule_job") =>
              /\ Absent(sl)'
              /\ (last'.op \in {"child_close", "child_error"} /\ last'.slug = sl) =>
                    last'.recWrites = 0]_vars

\* C36 happens: the job was run and deleted, and then its child's callback
\* fired and found no record
C36_Witness ==
    /\ last.op \in {"child_close", "child_error"}
    /\ last.prior = "none"
    /\ spawned >= 1
    /\ Absent(last.slug)

JobAt(st, sl) == loadJob(st, sl)[1]

\* no run of the job has left a trace in its record
NeverRun(job) ==
    /\ job.lastRunAt = <<>> /\ job.lastRunSource = "undefined"
    /\ job.lastRunStatus = "undefined" /\ job.lastRunExitCode = <<>>
    /\ job.lastRunError = UNDEF

Callbacks == {"child_close", "child_error"}

\* C37: the last-run fields of a record describe runs of that job only: when
\* a job is deleted and a job of the same slug is created while a child of
\* the old job still runs, the old child's callback does not touch the new
\* record, whose lastRun fields stay unset until the new job is run.
C37_StaleCallbackSpares ==
    [][\A sl \in SlugSpace :
          (last'.op \in Callbacks /\ ~Absent(sl) /\ NeverRun(JobAt(store, sl))) =>
              NeverRun(JobAt(store', sl))]_vars

\* the part of C37 that holds: the callback of the old child leaves the
\* start time and the source of the new record unset
C37_StaleCallbackKeepsStart ==
    [][\A sl \in SlugSpace :
          (last'.op \in Callbacks /\ ~Absent(sl) /\ NeverRun(JobAt(store, sl))) =>
              /\ JobAt(store', sl).lastRunAt = <<>>
              /\ JobAt(store', sl).lastRunSource = "undefined"]_vars

\* C38: in every reachable state a record whose lastRunStatus is set also
\* has lastRunAt set and lastRunSource manual: no status is recorded for a
\* run attempt whose start time and source were not recorded.
C38_StatusHasStart ==
    \A job \in Records :
        job.lastRunStatus # "undefined" =>
            job.lastRunAt # <<>> /\ job.lastRunSource = "manual"

\* the part of C38 that holds: a run whose child was spawned records its
\* start time and source together with the status running
C38_RunningHasStart ==
    \A job \in Records :
        job.lastRunStatus = "running" =>
            job.lastRunAt # <<>> /\ job.lastRunSource = "manual"

ConfigFields == {"run", "prompt", "attachUrl", "schedule", "name", "workdir"}

\* the record of sl, as loadJob reads it, has the given fields as before
Reads(sl, fields) ==
    /\ ~Absent(sl)'
    /\ \A f \in fields : JobAt(store', sl)[f] = JobAt(store, sl)[f]

NothingSupplied(a) == [a EXCEPT !.name = UNDEF] = NoArgs

\* C40: update_job for an existing job with no updatable field supplied
\* returns the failure "No updates provided." and neither rewrites the
\* record (updatedAt unchanged) nor reinstalls the unit.
C40_EmptyUpdateRejected ==
    [][(last'.op = "update_job" /\ last'.slug # UNDEF /\ NothingSupplied(last'.args)) =>
          /\ last'.result = "error" /\ last'.reason = "no updates"
          /\ last'.recWrites = 0 /\ last'.unitWrites = 0 /\ last'.cmds = 0
          /\ store' = store /\ units' = units]_vars

\* the part of C40 that holds: such an update leaves the schedule, the
\* legacy prompt, the working directory and the attach URL as they were
C40_EmptyUpdateKeepsFields ==
    [][(last'.op = "update_job" /\ last'.slug # UNDEF /\ NothingSupplied(last'.args)) =>
          \A sl \in SlugSpace :
             last'.slug = sl => Reads(sl, {"schedule", "prompt", "workdir", "attachUrl"})]_vars

----------------------------------------------------------------------------
(* Job lookup: inputs, the specification that exercises it, properties *)

\* the records a jobs directory may hold: one scheduled with source "X" and
\* name "a", one named "x a", one named "B c", one of source "w" named "B c"
SlugXa == <<"X", "-", "a">>
SlugLowerXa == <<"x", "-", "a">>
SlugBc == <<"b", "-", "c">>
SlugWBc == <<"w", "-", "b", "-", "c">>
NameBc == <<"B", " ", "c">>

FindSlugs == {SlugXa, SlugLowerXa, SlugBc, SlugWBc}

FindJob(sl) ==
    [LegacyJob EXCEPT
        !.slug = sl,
        !.name = CASE sl = SlugXa -> <<"a">> [] sl = SlugLowerXa -> <<"x", " ", "a">>
                   [] OTHER -> NameBc,
        !.source = CASE sl = SlugXa -> <<"X">> [] sl = SlugWBc -> <<"w">> [] OTHER -> UNDEF]

FindNames == {SlugXa, <<"x", " ", "a">>, <<"a">>, NameBc, <<"C">>, <<"z">>, SlugBc}

FindInit ==
    /\ platform = "linux"
    /\ store \in {[sl \in FindSlugs |-> IF sl \in held THEN <<FindJob(sl)>> ELSE <<>>] :
                     held \in SUBSET FindSlugs}
    /\ units = [sl \in FindSlugs |-> NoUnit]
    /\ children = {}
    /\ spawned = 0
    /\ logs = [sl \in FindSlugs |-> <<>>]
    /\ now = 0
    /\ last = Report("none", NoArgs, UNDEF, "ok", "none", 0, 0, 0, FALSE, <<>>)
    /\ CronIdle
    /\ ArgsIdle
    /\ SlugIdle
    /\ AdapterIdle
    /\ NormIdle

\* what a lookup reports: the slug of the job found, or not found
Looked(name, slug, result) ==
    /\ last' = Report("find_job", [NoArgs EXCEPT !.name = name], slug, result,
                      IF result = "ok" THEN "found" ELSE "not found", 0, 0, 0, FALSE, <<>>)
    /\ UNCHANGED <<platform, store, units, children, spawned, logs, now>>
    /\ UNCHANGED <<cronVars, argVars, slugVars, adapterVars, normVars>>

\* findJobByName(name) on the jobs directory
Lookup ==
    /\ last.op = "none"
    /\ \E name \in FindNames :
          IF findJobByName(store, name) = {} THEN Looked(name, UNDEF, "error")
          ELSE \E job \in findJobByName(store, name) : Looked(name, job.slug, "ok")

FindNext == Lookup

SpecFind == FindInit /\ [][FindNext]_vars

\* the name looked up, and the three ways of the documented lookup
Sought == last.args.name
ExactMatch == loadJob(store, Sought)
DerivedMatch == loadJob(store, slugify(Sought))
FuzzyMatches ==
    {sl \in DOMAIN store :
        /\ store[sl] # <<>>
        /\ \/ EndsWith(sl, <<"-">> \o slugify(Sought))
           \/ LowerCase(store[sl][1].name) = LowerCase(Sought)
           \/ Includes(LowerCase(store[sl][1].name), LowerCase(Sought))}

\* C28: findJobByName returns the job whose slug is the name itself when
\* there is one, else the job whose slug is slugify(name), else a job the
\* fuzzy rules match, and not-found only when none of these matches.
C28_LookupPrecedence ==
    last.op = "find_job" =>
        IF ExactMatch # <<>> THEN last.result = "ok" /\ last.slug = Sought
        ELSE IF DerivedMatch # <<>> THEN last.result = "ok" /\ last.slug = slugify(Sought)
        ELSE IF FuzzyMatches # {} THEN last.result = "ok" /\ last.slug \in FuzzyMatches
        ELSE last.result = "error"

\* the part of C28 that holds: the same with the derived slug looked at
\* before the name itself
C28_DerivedSlugFirst ==
    last.op = "find_job" =>
        IF DerivedMatch # <<>> THEN last.result = "ok" /\ last.slug = slugify(Sought)
        ELSE IF ExactMatch # <<>> THEN last.result = "ok" /\ last.slug = Sought
        ELSE IF FuzzyMatches # {} THEN last.result = "ok" /\ last.slug \in FuzzyMatches
        ELSE last.result = "error"

----------------------------------------------------------------------------
(* Record decoding: inputs, the specification that exercises it, properties *)

\* run objects a record on disk may hold: none, an empty one, prompt and
\* command together, a prompt, a prompt with an attach URL that is none, a
\* prompt with a run format and a title of the wrong kind
RawRuns ==
    {<<>>, <<EmptyRun>>,
     <<[EmptyRun EXCEPT !.prompt = StrHi, !.command = StrEcho]>>,
     <<[EmptyRun EXCEPT !.prompt = StrHiPadded]>>,
     <<[EmptyRun EXCEPT !.prompt = StrHi, !.attachUrl = StrBadUrl]>>,
     <<[EmptyRun EXCEPT !.prompt = StrHi, !.runFormat = StrXml, !.title = NotAString]>>}

RawJobs ==
    {[LegacyJob EXCEPT !.slug = sl, !.run = run, !.prompt = prompt, !.attachUrl = url,
                       !.createdAt = created, !.lastRunStatus = status,
                       !.lastRunSource = source] :
        sl \in {SlugA, NotAString}, run \in RawRuns, prompt \in {StrHi, UNDEF},
        url \in {UNDEF, StrBadUrl}, created \in {<<>>, <<1>>},
        status \in {"running", "done"}, source \in {"manual", "cron"}}

NormInit ==
    /\ normRaw \in {<<>>} \cup {<<r>> : r \in RawJobs}
    /\ normOut = NotDecoded
    /\ CronIdle
    /\ ArgsIdle
    /\ SlugIdle
    /\ AdapterIdle
    /\ SysIdle

\* normalizeJob(JSON.parse(...))
Decode ==
    /\ ~normOut.ran
    /\ normOut' = [ran |-> TRUE, threw |-> normalizeJob(normRaw, now).threw,
                   job |-> normalizeJob(normRaw, now).job]
    /\ UNCHANGED <<normRaw, cronVars, argVars, slugVars, adapterVars, sysVars>>

NormNext == Decode

SpecNorm == NormInit /\ [][NormNext]_vars

\* the decoded value carries the three strings a job cannot do without
RawKeyed == normRaw # <<>> /\ IsString(normRaw[1].slug)

\* a job with the defaults in place: the creation time given or backfilled,
\* status and source one of the known values or unset, a run spec that is valid
WellFormedJob(job) ==
    /\ job.createdAt = (IF normRaw[1].createdAt = <<>> THEN now ELSE normRaw[1].createdAt[1])
    /\ job.lastRunStatus \in RunStatuses \cup {"undefined"}
    /\ job.lastRunStatus = "undefined" <=> normRaw[1].lastRunStatus \notin RunStatuses
    /\ job.lastRunSource \in RunSources \cup {"undefined"}
    /\ job.lastRunSource = "undefined" <=> normRaw[1].lastRunSource \notin RunSources
    /\ job.slug = normRaw[1].slug /\ job.name = normRaw[1].name
    /\ job.run # <<>> =>
          /\ job.run[1].runFormat \in {UNDEF, StrDefault, StrJson}
          /\ job.run[1].title # NotAString

\* C30: normalizeJob never throws: whatever the decoded value holds (a run
\* object with neither or both of prompt and command, an attach URL that is
\* none, no creation time, an unknown status or source) it returns a job
\* with the defaults in place.
C30_NormalizeNeverThrows ==
    normOut.ran =>
        /\ ~normOut.threw
        /\ RawKeyed => normOut.job # <<>> /\ WellFormedJob(normOut.job[1])

\* the part of C30 that holds: a value that makes normalizeJob return a job
\* gives one with the defaults in place, and a value without a run object
\* and without a legacy attach URL never makes it throw
C30_DefaultsWhenReturned ==
    normOut.ran =>
        /\ normOut.job # <<>> => RawKeyed /\ WellFormedJob(normOut.job[1])
        /\ (RawKeyed /\ normRaw[1].run = <<>> /\ normRaw[1].attachUrl = UNDEF) =>
              ~normOut.threw /\ normOut.job # <<>>
        /\ ~RawKeyed => ~normOut.threw /\ normOut.job = <<>>

----------------------------------------------------------------------------
(* Scheduler adapters: the specification that exercises them, properties *)

MaxCalls == 2

\* jobs to install: one that renders, one whose schedule does not compile,
\* one without a prompt to build the invocation from
AdapterJobs ==
    {LegacyJob, [LegacyJob EXCEPT !.schedule = CronBadRange],
     [LegacyJob EXCEPT !.prompt = StrBlank]}

AdapterInit ==
    /\ adPlat \in {"darwin", "linux"}
    /\ adUnit = NoUnit
    /\ adJob \in AdapterJobs
    /\ adOut = NoCall
    /\ CronIdle
    /\ ArgsIdle
    /\ SlugIdle
    /\ NormIdle
    /\ SysIdle

Called(op, failAt, out) ==
    /\ adUnit' = out.unit
    /\ adOut' = [op |-> op, failAt |-> failAt, calls |-> adOut.calls + 1,
                 threw |-> out.threw, steps |-> out.steps]
    /\ UNCHANGED <<adPlat, adJob, cronVars, argVars, slugVars, normVars, sysVars>>

\* installJob(job) with the step that fails, if any
InstallUnit ==
    /\ adOut.calls < MaxCalls
    /\ \E failAt \in 0..5 : Called("install", failAt, installJob(adPlat, adUnit, adJob, failAt))

\* uninstallJob(slug) with the step that fails, if any
UninstallUnit ==
    /\ adOut.calls < MaxCalls
    /\ \E failAt \in (IF adPlat = "linux" THEN 0..3 ELSE 0..1) :
          Called("uninstall", failAt, uninstallJob(adPlat, adUnit, failAt))

AdapterNext == InstallUnit \/ UninstallUnit

SpecAdapter == AdapterInit /\ [][AdapterNext]_vars

\* the order of the steps of each install
TimerInstallOrder == <<"write service", "write timer", "daemon-reload", "enable", "start">>
DaemonInstallOrder == <<"unload", "write plist", "load">>

IsPrefix(s, t) == Len(s) <= Len(t) /\ SubSeq(t, 1, Len(s)) = s

\* both units, or the plist, of the job can be rendered
Renders ==
    IF adPlat = "linux"
    THEN ~createSystemdService(adJob).threw /\ ~createSystemdTimer(adJob).threw
    ELSE ~createLaunchdPlist(adJob).threw

\* the step of the daemon install that fails and is not ignored: 0 none
DaemonFailure == CASE adOut.failAt \in {2, 4} -> 2 [] adOut.failAt \in {3, 5} -> 3 [] OTHER -> 0

\* C25: the timer install attempts write service, write timer, reload,
\* enable, start in this order, stops at the step that fails and throws; the
\* daemon install attempts unload, write plist, load in this order, goes on
\* after a failed unload, and stops at a failed write or load and throws.
C25_InstallStepsInOrder ==
    adOut.op = "install" =>
        IF adPlat = "linux"
        THEN /\ IsPrefix(adOut.steps, TimerInstallOrder)
             /\ adOut.failAt # 0 => adOut.threw /\ Len(adOut.steps) <= adOut.failAt
             /\ (adOut.failAt # 0 /\ Renders) =>
                   adOut.steps = SubSeq(TimerInstallOrder, 1, adOut.failAt)
             /\ (adOut.failAt = 0 /\ Renders) =>
                   /\ ~adOut.threw /\ adOut.steps = TimerInstallOrder
                   /\ adUnit.enabled /\ adUnit.active
                   /\ adUnit.service # <<>> /\ adUnit.timer # <<>>
             /\ ~Renders => adOut.threw /\ Len(adOut.steps) <= 1
        ELSE /\ IsPrefix(adOut.steps, DaemonInstallOrder)
             /\ adOut.steps # <<>> /\ adOut.steps[1] = "unload"
             /\ DaemonFailure # 0 => adOut.threw /\ Len(adOut.steps) <= DaemonFailure
             /\ (DaemonFailure # 0 /\ Renders) =>
                   adOut.steps = SubSeq(DaemonInstallOrder, 1, DaemonFailure)
             /\ (DaemonFailure = 0 /\ Renders) =>
                   /\ ~adOut.threw /\ adOut.steps = DaemonInstallOrder
                   /\ adUnit.plist # <<>> /\ adUnit.loaded = adUnit.plist
             /\ ~Renders => adOut.threw /\ adOut.steps = <<"unload">>

\* C25 happens: a timer install stopped at a failing enable, and a daemon
\* install went on after a failing unload
C25_Witness ==
    /\ adOut.op = "install" /\ adPlat = "linux" /\ adOut.failAt = 4 /\ adOut.threw
    /\ adOut.steps = <<"write service", "write timer", "daemon-reload", "enable">>

C25_WitnessDaemon ==
    /\ adOut.op = "install" /\ adPlat = "darwin" /\ adOut.failAt = 1 /\ ~adOut.threw
    /\ adOut.steps = DaemonInstallOrder

\* C26: whichever of stop, disable and the final reload fails in the timer
\* uninstall, every other step is still attempted (disable after a failed
\* stop, the deletion of both unit files, the reload), the unit files are
\* gone, and the uninstall returns without an error.
C26_UninstallBestEffort ==
    (adOut.op = "uninstall" /\ adPlat = "linux") =>
        /\ ~adOut.threw
        /\ adUnit.service = <<>> /\ adUnit.timer = <<>>
        /\ \A step \in {"stop", "disable", "daemon-reload"} :
              \E i \in 1..Len(adOut.steps) : adOut.steps[i] = step

\* the part of C26 that holds: when stop does not fail every step is
\* attempted, and whatever fails the files are gone and nothing is thrown
C26_UnlessStopFails ==
    (adOut.op = "uninstall" /\ adPlat = "linux") =>
        /\ ~adOut.threw
        /\ adUnit.service = <<>> /\ adUnit.timer = <<>>
        /\ adOut.failAt # 1 =>
              \A step \in {"stop", "disable", "daemon-reload"} :
                 \E i \in 1..Len(adOut.steps) : adOut.steps[i] = step
        /\ \E i \in 1..Len(adOut.steps) : adOut.steps[i] = "daemon-reload"

====
